---- MODULE Spec2Model ----
(***************************************************************************)
(* LX_Agent: the adaptive step loop (core/agent.py, execute_interactive),  *)
(* the planning call and history truncation of the model interface         *)
(* (llm/base.py) and the tool dispatch of the provider router              *)
(* (mcp_server/router.py), and the session history kept by the API server  *)
(* (api_server.py).                                                        *)
(***************************************************************************)
EXTENDS Integers, Sequences, FiniteSets, TLC

VARIABLES
    pc,                            \* position of execute_interactive
    llm,                           \* self.llm is set (LLMFactory succeeded)
    security,                      \* config.get_security_config()
    auto_continue,                 \* parameter auto_continue
    max_steps,                     \* parameter max_steps
    max_tokens,                    \* BaseLLM.max_tokens
    command,                       \* parameter command (the goal)
    history,                       \* the history list, mutated in place
    step,                          \* local step
    last_command_signature,        \* local last_command_signature
    consecutive_repetition_count,  \* local consecutive_repetition_count
    call,                          \* local call (tool_calls[0])
    inflight,                      \* router: index in mcps of the awaited provider
    final_status,                  \* status of the pending return
    ret,                           \* the returned record, None before the return
    history_before,                \* ghost: the history at entry
    appended,                      \* ghost: number of entries appended by this invocation
    events,                        \* ghost: what the last two loop iterations did
    given,                         \* ghost: the history handed to the last planning call
    counters,                      \* ghost: model calls made, entries dropped by 'clear'
    cancelled,                     \* ghost: the caller's cancel, and the counts at that time
    services,                      \* router: self.mcps with each provider's configuration
    op,                            \* router: the last call of a router method, its arguments
    returned,                      \* router: what that call returned
    active_sessions,               \* API server: active_sessions[session_id]["history"]
    served,                        \* ghost: the last request the API server served
    router,                        \* router: self.initialized, self.routing_strategy
    adapter,                       \* one provider adapter: its connection and calls
    truncation,                    \* a call of _truncate_history and what it returned
    requests                       \* API server: the requests being handled

vars == <<pc, llm, security, auto_continue, max_steps, max_tokens, command,
          history, step, last_command_signature, consecutive_repetition_count,
          call, inflight, final_status, ret, history_before, appended, events,
          given, counters, cancelled, services, op, returned,
          active_sessions, served, router, adapter, truncation, requests>>

\* the state of the router and of the API server, which the step loop
\* leaves alone
rest == <<router, adapter, truncation, requests>>

outside == <<services, op, returned, active_sessions, served, rest>>

----------------------------------------------------------------------------
(* Bounds of the model *)

MaxSteps == 4            \* largest max_steps a caller passes
MaxProviders == 3        \* largest number of registered providers
MaxPriority == 1         \* largest configured priority
MaxRequests == 3         \* largest number of requests to one session
MaxAppends == 2          \* largest number of entries one invocation appends
MaxHistory == 3          \* largest number of entries in a history to truncate
MaxRetries == 3          \* largest number of attempts a caller asks for
MaxRouted == 3           \* largest number of services in a routed configuration
MaxConcurrent == 2       \* largest number of handlers awaiting at once
MaxProposed == 3         \* largest number of calls the model proposes at once

----------------------------------------------------------------------------
(* Program constants *)

REPETITION_SOFT_BLOCK_THRESHOLD == 2
REPETITION_HARD_STOP_THRESHOLD == 4
reserved_tokens == 1000
NoticeLen == 17          \* len("[...内容过长,已被裁剪...]")

None == <<>>             \* Python None (also: an absent dict key)

\* security_config.get("dangerous_tools", [...]) default
dangerous_tools == {"execute_shell", "start_process"}

\* the caps _truncate_history tries, in order
TruncationCaps == <<2000, 1000, 500, 200, 100, 50, 20>>

\* self.mcps in registration order, and the tools each provider lists
mcps == <<"cloud", "local">>

ToolsOf(name) ==
    IF name = "cloud" THEN {"move_mouse"} ELSE {"move_mouse", "execute_shell"}

----------------------------------------------------------------------------
(* Tool calls and their signatures *)

\* order of the argument keys under Python's string comparison
KeyRank(k) == CASE k = "message" -> 1 [] k = "x" -> 2 [] k = "y" -> 3

Range(s) == {s[i] : i \in DOMAIN s}

\* sorted(arguments.items()): the items in ascending key order
RECURSIVE SortedItems(_)
SortedItems(items) ==
    IF items = {} THEN <<>>
    ELSE LET first == CHOOSE p \in items :
                         \A q \in items : KeyRank(p[1]) <= KeyRank(q[1])
         IN  <<first>> \o SortedItems(items \ {first})

\* call.get("arguments", {}): a dict keeps insertion order, modelled as a
\* sequence of <<key, value>> pairs; a missing key gives the empty dict
Arguments(c) == IF c.argkind = "missing" THEN <<>> ELSE c.arguments

\* f"{name}({sorted(arguments.items())})"
Signature(c) == <<c.name, SortedItems(Range(Arguments(c)))>>

MkCall(n, a, k) == [name |-> n, arguments |-> a, argkind |-> k]

MoveXY == MkCall("move_mouse", << <<"x", "10">>, <<"y", "20">> >>, "mapping")
MoveYX == MkCall("move_mouse", << <<"y", "20">>, <<"x", "10">> >>, "mapping")
Shell  == MkCall("execute_shell", <<>>, "missing")
BadArgs == MkCall("move_mouse", <<>>, "not_mapping")

ProposalCalls == {MoveXY, MoveYX, Shell}

----------------------------------------------------------------------------
(* The model's textual output and its parsing *)

NotDict == MkCall("", <<>>, "not_dict")   \* a list item that is no mapping

MkValue(k, items) == [kind |-> k, items |-> items]

\* what json.loads / ast.literal_eval can produce from the model's text:
\* a list of items, or a non-empty object / string / number
JsonValues ==
    {MkValue("list", <<>>)}
    \cup {MkValue("list", <<c>>) : c \in ProposalCalls \cup {BadArgs, NotDict}}
    \cup {MkValue("list", <<MoveXY, Shell>>)}
    \cup {MkValue("object", <<>>)}

\* the text of a response: optionally wrapped in a ``` fence, and either
\* the text of a JSON value or text that no parser accepts
ModelOutputs ==
    [fenced : BOOLEAN, parses : {TRUE}, value : JsonValues]
    \cup [fenced : BOOLEAN, parses : {FALSE}, value : {MkValue("list", <<>>)}]

\* parse_llm_json_response: the fence is stripped, the text parsed, and a
\* text neither json.loads nor ast.literal_eval accepts gives []
parse_llm_json_response(response) ==
    IF response.parses THEN response.value ELSE MkValue("list", <<>>)

\* `not tool_calls`
IsEmpty(tool_calls) == tool_calls.kind = "list" /\ tool_calls.items = <<>>

\* lines 248-254 raise: tool_calls[0] on a non-list, call.get on a non-dict
\* item, arguments.items() on arguments that are no mapping
Raises(tool_calls) ==
    \/ tool_calls.kind # "list"
    \/ /\ tool_calls.items # <<>>
       /\ tool_calls.items[1].argkind \in {"not_dict", "not_mapping"}

----------------------------------------------------------------------------
(* History entries and the context manager *)

MkResult(st, mcp, n) == [status |-> st, mcp_name |-> mcp, len |-> n]

MkEntry(i, c, r, s) == [id |-> i, command |-> c, result |-> r, summary |-> s]

\* length of the text a tool call returns: a shell command's output is
\* long, every other payload is short
PayloadLen(name, status) ==
    IF name = "execute_shell" /\ status = "success" THEN 4000 ELSE 10

\* estimate_tokens(json.dumps(entry)): a monotone proxy, the entry's fixed
\* scaffolding plus the length of its long string
estimate_tokens(e) == 25 + e.result.len

\* _truncate_long_strings(entry, max_len)
_truncate_long_strings(e, max_len) ==
    IF e.result.len > max_len
    THEN [e EXCEPT !.result.len = max_len + NoticeLen]
    ELSE e

\* the walk of lines 65-76, newest to oldest; 0 stands for Python's -1
RECURSIVE MutKeepFromIndexSkips(_, _, _, _, _)
MutKeepFromIndexSkips(h, i, tokens_count, available_tokens, keep) ==
    IF i = 0 THEN keep
    ELSE IF tokens_count + estimate_tokens(h[i]) <= available_tokens
         THEN MutKeepFromIndexSkips(h, i - 1,
                                    tokens_count + estimate_tokens(h[i]),
                                    available_tokens, i)
         ELSE MutKeepFromIndexSkips(h, i - 1, tokens_count,
                                    available_tokens, keep)

RECURSIVE KeepFromIndex(_, _, _, _, _)
KeepFromIndex(h, i, tokens_count, available_tokens, keep) ==
    IF i = 0 THEN keep
    ELSE IF tokens_count + estimate_tokens(h[i]) <= available_tokens
         THEN KeepFromIndex(h, i - 1, tokens_count + estimate_tokens(h[i]),
                            available_tokens, i)
         ELSE keep

\* lines 87-94: the first cap whose cut copy fits, tried in order
RECURSIVE MutCutLatestSmallestFirst(_, _, _)
MutCutLatestSmallestFirst(latest_item, k, available_tokens) ==
    IF k > Len(TruncationCaps) THEN <<>>
    ELSE LET truncated_item ==
                 _truncate_long_strings(
                     latest_item,
                     TruncationCaps[Len(TruncationCaps) + 1 - k])
         IN  IF estimate_tokens(truncated_item) <= available_tokens
             THEN <<truncated_item>>
             ELSE MutCutLatestSmallestFirst(latest_item, k + 1,
                                            available_tokens)

RECURSIVE CutLatest(_, _, _)
CutLatest(latest_item, k, available_tokens) ==
    IF k > Len(TruncationCaps) THEN <<>>
    ELSE LET truncated_item ==
                 _truncate_long_strings(latest_item, TruncationCaps[k])
         IN  IF estimate_tokens(truncated_item) <= available_tokens
             THEN <<truncated_item>>
             ELSE CutLatest(latest_item, k + 1, available_tokens)

MutTruncateKeepOldest(h, mt) ==
    LET available_tokens == mt - reserved_tokens
        keep == KeepFromIndex(h, Len(h), 0, available_tokens, 0)
    IN  IF keep = 0
        THEN IF h = <<>> THEN [history |-> <<>>, truncated |-> FALSE]
             ELSE [history |-> CutLatest(h[Len(h)], 1, available_tokens),
                   truncated |-> TRUE]
        ELSE IF keep > 1
             THEN [history |-> SubSeq(h, 1, Len(h) - keep + 1),
                   truncated |-> TRUE]
             ELSE [history |-> h, truncated |-> FALSE]

\* BaseLLM._truncate_history(history, max_tokens)
_truncate_history(h, mt) ==
    LET available_tokens == mt - reserved_tokens
        keep == KeepFromIndex(h, Len(h), 0, available_tokens, 0)
    IN  IF keep = 0
        THEN IF h = <<>> THEN [history |-> <<>>, truncated |-> FALSE]
             ELSE [history |-> CutLatest(h[Len(h)], 1, available_tokens),
                   truncated |-> TRUE]
        ELSE IF keep > 1
             THEN [history |-> SubSeq(h, keep, Len(h)), truncated |-> TRUE]
             ELSE [history |-> h, truncated |-> FALSE]

----------------------------------------------------------------------------
(* The registered providers, and the router and API server at rest *)

\* one entry of self.mcps with its section of the configuration: tools is
\* what list_tools returns (empty when the provider cannot list), native is
\* the format of what call_tool returns
MkService(n, native, prio, avail, caps, tools) ==
    [name |-> n, native |-> native, priority |-> prio, available |-> avail,
     capabilities |-> caps, tools |-> tools]

\* the providers the step loop runs against: mcps with ToolsOf
DefaultServices ==
    << MkService("cloud", "CallToolResult", 0, TRUE, {"browser"},
                 <<"move_mouse">>),
       MkService("local", "dict", 1, TRUE, {"file"},
                 <<"move_mouse", "execute_shell">>) >>

NoOp == [name |-> "none"]

\* ghost: the number of requests served; the history the last invocation of
\* the step loop started with, the one it held before its clear-history
\* prompt and the answer to that prompt; the same two of the invocation
\* before it; the step entries the invocations so far appended, one after
\* the other, and whether a history was cleared during one of the requests;
\* the same two as they were when the last invocation started
NoneServed ==
    [n |-> 0, started |-> <<>>, ended |-> <<>>, clear_input |-> "none",
     prev_ended |-> <<>>, prev_clear |-> "none",
     steps |-> <<>>, cleared |-> FALSE,
     before |-> [steps |-> <<>>, cleared |-> FALSE]]

\* no router method called, no request served
OutsideIdle ==
    /\ op = NoOp
    /\ returned = None
    /\ active_sessions = <<>>
    /\ served = NoneServed

\* MCPRouter after a successful initialize, with the default strategy
RouterReady ==
    [initialized |-> TRUE, routing_strategy |-> "capability_match"]

NoAdapter == [kind |-> "none"]

NoTruncation == [called |-> FALSE]

\* a started router; no adapter looked at on its own, no call of
\* _truncate_history on its own, no request being handled
RestIdle ==
    /\ router = RouterReady
    /\ adapter = NoAdapter
    /\ truncation = NoTruncation
    /\ requests = <<>>

----------------------------------------------------------------------------
(* The step loop: Agent.execute_interactive *)

NoCall == MkCall("", <<>>, "missing")

NoReturn == [status |-> "none", results |-> <<>>, final_summary |-> "none"]

Goals == {"g0", "g1"}

\* the entry a previous invocation left in the list the caller passes
Inherited ==
    MkEntry(0, MoveXY, MkResult("success", "local", 10), "set")

MkSecurity(sc, acd, aci) ==
    [shell_confirm |-> sc, auto_continue_dangerous |-> acd,
     auto_continue_interactive |-> aci]

\* the invocations explored: whether a model was created, the security
\* section of the configuration, the model's max_tokens, and the
\* auto_continue and history arguments of the call
MkInvocation(l, sec, mt, ac, h) ==
    [llm |-> l, security |-> sec, max_tokens |-> mt, auto_continue |-> ac,
     history |-> h]

Invocations ==
    { MkInvocation(TRUE, MkSecurity(TRUE, FALSE, FALSE), 4096, FALSE, <<>>),
      MkInvocation(TRUE, MkSecurity(TRUE, FALSE, FALSE), 1060, TRUE,
                   <<Inherited>>),
      MkInvocation(TRUE, MkSecurity(TRUE, TRUE, FALSE), 1060, FALSE,
                   <<Inherited>>),
      MkInvocation(TRUE, MkSecurity(FALSE, FALSE, TRUE), 4096, FALSE, <<>>),
      MkInvocation(FALSE, MkSecurity(TRUE, FALSE, FALSE), 4096, FALSE,
                   <<Inherited>>) }

\* lines 256-259
RepetitionCount(last, current, count) ==
    IF last # None /\ current = last THEN count + 1 ELSE 1

\* line 262
HardStop(count) == count >= REPETITION_HARD_STOP_THRESHOLD

\* line 271
MutSoftBlockLate(count) == count > REPETITION_SOFT_BLOCK_THRESHOLD

SoftBlock(count) == count >= REPETITION_SOFT_BLOCK_THRESHOLD

\* lines 289-290
MutNeedsConfirmInverted(name, sec) ==
    /\ name \in dangerous_tools
    /\ sec.shell_confirm
    /\ sec.auto_continue_dangerous

NeedsConfirm(name, sec) ==
    /\ name \in dangerous_tools
    /\ sec.shell_confirm
    /\ ~sec.auto_continue_dangerous

\* line 293; "queren" stands for the Chinese word the code also accepts
Accepted(confirm) == confirm \in {"queren", "yes", "y"}

\* lines 336-340: the signature kept after a dispatch
MutSignatureAfterForgets(status, current) == None

MutSignatureAfterKeeps(status, current) == current

SignatureAfter(status, current) ==
    IF status = "success" THEN current ELSE None

\* line 362
AutoContinue(ac, sec) == ac \/ sec.auto_continue_interactive

\* lines 264-267, 273-279 and 295: the entries the guards append
ErrorEntry(i, name) ==
    MkEntry(i, MkCall("system_error", << <<"message", "loop">> >>, "mapping"),
            MkResult("error", "", 10), "none")

NoticeEntry(i, name) ==
    MkEntry(i, MkCall("system_notice", << <<"message", name>> >>, "mapping"),
            MkResult("info", "", 10), "none")

CancelledEntry(i, c) == MkEntry(i, c, MkResult("cancelled", "", 0), "none")

\* lines 347-357: the entry of a dispatched call, with its summary
ToolEntry(i, c, result) == MkEntry(i, c, result, "set")

NextId == Len(history_before) + appended

\* line 295: the rejected call is recorded
MutRejectedNoEntry(h, c) == h

Rejected(h, c) == Append(h, CancelledEntry(NextId, c))

\* history.clear() (lines 211 and 367): a partial clear in its place
MutClearKeepsLast(h) == IF Len(h) > 1 THEN <<h[Len(h)]>> ELSE <<>>

clear(h) == <<>>

\* router.execute_tool_call line 295-299: the next provider, from index i
\* on, that lists the tool; 0 when there is none
MutProviderFromFirst(i, tool_name) ==
    IF tool_name \in ToolsOf(mcps[1]) THEN 1 ELSE 0

RECURSIVE ProviderFrom(_, _)
ProviderFrom(i, tool_name) ==
    IF i > Len(mcps) THEN 0
    ELSE IF tool_name \in ToolsOf(mcps[i]) THEN i
         ELSE ProviderFrom(i + 1, tool_name)

\* router line 337
NotFound == MkResult("error", "", 10)

Event(sig, act) ==
    [sig |-> sig, act |-> act, status |-> "none", asked |-> FALSE,
     answer |-> "none", providers |-> 0]

\* ghost: the events of the previous and of the current iteration, the
\* number of iterations in a row that proposed the current signature, and
\* whether that run is clean: it began when last_command_signature was not
\* the proposed signature, and each earlier proposal of the run was either
\* soft-blocked or dispatched with a result of status success
LastEvent == events.cur

SetLast(f) == [events EXCEPT !.cur = f]

Push(e) ==
    [prev |-> events.cur, cur |-> e,
     streak |-> IF e.sig = None THEN 0
                ELSE IF e.sig = events.cur.sig THEN events.streak + 1
                ELSE 1,
     clean |-> IF e.sig = None THEN FALSE
               ELSE IF e.sig = events.cur.sig
               THEN /\ events.clean
                    /\ \/ events.cur.act = "soft_block"
                       \/ /\ events.cur.act = "dispatched"
                          /\ events.cur.status = "success"
               ELSE last_command_signature # e.sig]

ModelCalls == counters.plan + counters.summary + counters.final

Init ==
    /\ pc = "plan"
    /\ \E i \in Invocations :
          /\ llm = i.llm
          /\ security = i.security
          /\ max_tokens = i.max_tokens
          /\ auto_continue = i.auto_continue
          /\ history = i.history
    /\ max_steps \in 1..MaxSteps
    /\ command = "g0"
    /\ step = 0
    /\ last_command_signature = None
    /\ consecutive_repetition_count = 0
    /\ call = NoCall
    /\ inflight = 0
    /\ final_status = "none"
    /\ ret = NoReturn
    /\ history_before = history
    /\ appended = 0
    /\ events = [prev |-> Event(None, "none"), cur |-> Event(None, "none"),
                 streak |-> 0, clean |-> FALSE]
    /\ given = [step |-> -1, history |-> <<>>, from |-> <<>>]
    /\ counters = [plan |-> 0, final |-> 0, summary |-> 0, dropped |-> 0]
    /\ cancelled = [fired |-> FALSE, models |-> 0, appended |-> 0,
                    providers |-> 0]
    /\ services = DefaultServices
    /\ OutsideIdle
    /\ RestIdle

config == <<llm, security, auto_continue, max_steps, max_tokens,
            history_before, outside>>

\* lines 229-283: one planning call and the repetition guard
Plan(response) ==
    /\ pc = "plan"
    /\ step < max_steps
    /\ llm
    /\ given' = [step |-> step,
                 history |-> _truncate_history(history, max_tokens).history,
                 from |-> history]
    /\ UNCHANGED <<config, command, cancelled, final_status>>
    /\ LET tool_calls == parse_llm_json_response(response)
           first == tool_calls.items[1]
           name == first.name
           sig == Signature(first)
           count == RepetitionCount(last_command_signature, sig,
                                    consecutive_repetition_count)
       IN
       IF IsEmpty(tool_calls)
       THEN /\ pc' = "ask_clear"
            /\ counters' = [counters EXCEPT !.plan = @ + 1, !.final = @ + 1]
            /\ events' = Push(Event(None, "none"))
            /\ UNCHANGED <<history, step, last_command_signature,
                           consecutive_repetition_count, call, inflight,
                           ret, appended>>
       ELSE IF Raises(tool_calls)
       THEN /\ pc' = "raised"
            /\ counters' = [counters EXCEPT !.plan = @ + 1]
            /\ events' = Push(Event(None, "raised"))
            /\ UNCHANGED <<history, step, last_command_signature,
                           consecutive_repetition_count, call, inflight,
                           ret, appended>>
       ELSE /\ call' = first
            /\ consecutive_repetition_count' = count
            /\ counters' = [counters EXCEPT !.plan = @ + 1]
            /\ IF HardStop(count)
               THEN /\ history' = Append(history, ErrorEntry(NextId, name))
                    /\ appended' = appended + 1
                    /\ ret' = [status |-> "error", results |-> history',
                               final_summary |-> "forced"]
                    /\ pc' = "done"
                    /\ events' = Push(Event(sig, "hard_stop"))
                    /\ UNCHANGED <<step, last_command_signature, inflight>>
               ELSE IF SoftBlock(count)
               THEN /\ history' = Append(history, NoticeEntry(NextId, name))
                    /\ appended' = appended + 1
                    /\ last_command_signature' = None
                    /\ step' = step + 1
                    /\ pc' = "plan"
                    /\ events' = Push(Event(sig, "soft_block"))
                    /\ UNCHANGED <<inflight, ret>>
               ELSE IF NeedsConfirm(name, security)
               THEN /\ pc' = "confirm"
                    /\ events' = Push([Event(sig, "asking") EXCEPT !.asked = TRUE])
                    /\ UNCHANGED <<history, appended, step,
                                   last_command_signature, inflight, ret>>
               ELSE /\ pc' = "dispatch"
                    /\ inflight' = ProviderFrom(1, name)
                    /\ events' = Push([Event(sig, "dispatching") EXCEPT !.providers = 1])
                    /\ UNCHANGED <<history, appended, step,
                                   last_command_signature, ret>>

\* lines 233-247 without a model: tool_calls = [] and no summary
PlanNoLLM ==
    /\ pc = "plan"
    /\ step < max_steps
    /\ ~llm
    /\ ret' = [status |-> "success", results |-> history,
               final_summary |-> "none"]
    /\ pc' = "done"
    /\ UNCHANGED <<config, command, history, step, last_command_signature,
                   consecutive_repetition_count, call, inflight, final_status,
                   appended, events, given, counters, cancelled>>

\* lines 227 and 398-405: the loop condition fails, final summary
LoopExit ==
    /\ pc = "plan"
    /\ step >= max_steps
    /\ pc' = "ask_clear"
    /\ final_status' = "success"
    /\ counters' = IF llm THEN [counters EXCEPT !.final = @ + 1] ELSE counters
    /\ UNCHANGED <<config, command, history, step, last_command_signature,
                   consecutive_repetition_count, call, inflight, ret,
                   appended, events, given, cancelled>>

\* lines 291-299: the user's answer to the dangerous-tool prompt
Confirm(confirm) ==
    /\ pc = "confirm"
    /\ IF Accepted(confirm)
       THEN /\ pc' = "dispatch"
            /\ inflight' = ProviderFrom(1, call.name)
            /\ events' = SetLast([LastEvent EXCEPT
                             !.act = "dispatching", !.answer = confirm,
                             !.providers = 1])
            /\ UNCHANGED <<history, appended, step>>
       ELSE /\ history' = Rejected(history, call)
            /\ appended' = appended + 1
            /\ step' = step + 1
            /\ pc' = "plan"
            /\ events' = SetLast([LastEvent EXCEPT
                             !.act = "rejected", !.answer = confirm])
            /\ UNCHANGED inflight
    /\ UNCHANGED <<config, command, last_command_signature,
                   consecutive_repetition_count, call, final_status, ret,
                   given, counters, cancelled>>

\* lines 300-372 and 397: the router returned `result`; the signature is
\* updated, the entry appended and summarised, and with auto-continue the
\* step counted
Record(result) ==
    /\ last_command_signature' = SignatureAfter(result.status, Signature(call))
    /\ history' = Append(history, ToolEntry(NextId, call, result))
    /\ appended' = appended + 1
    /\ counters' = [counters EXCEPT !.summary = @ + 1]
    /\ events' = SetLast([LastEvent EXCEPT
                     !.act = "dispatched", !.status = result.status])
    /\ inflight' = 0
    /\ IF AutoContinue(auto_continue, security)
       THEN step' = step + 1 /\ pc' = "plan"
       ELSE step' = step /\ pc' = "decide"
    /\ UNCHANGED <<config, command, consecutive_repetition_count, call,
                   final_status, ret, given>>

\* router lines 300-334: the awaited provider returns; a CallToolResult of
\* the remote provider is converted, a dict of the local one passed through
ProviderReturn(status) ==
    /\ pc = "dispatch"
    /\ inflight # 0
    /\ Record(MkResult(status, mcps[inflight], PayloadLen(call.name, status)))
    /\ UNCHANGED cancelled

\* router lines 335-337: an exception out of the awaited call_tool is caught
\* and logged, and the loop over the providers goes on
Failover ==
    LET next == ProviderFrom(inflight + 1, call.name) IN
    IF next # 0
    THEN /\ inflight' = next
         /\ events' = SetLast([LastEvent EXCEPT !.providers = @ + 1])
         /\ UNCHANGED <<pc, config, command, history, step,
                        last_command_signature,
                        consecutive_repetition_count, call, final_status,
                        ret, appended, given, counters>>
    ELSE Record(NotFound)

\* async_cloud_mcp.call_tool raises once its retries are used up
ProviderRaise ==
    /\ pc = "dispatch"
    /\ inflight # 0
    /\ mcps[inflight] = "cloud"
    /\ Failover
    /\ UNCHANGED cancelled

\* lines 363-397: the user's command at the decision gate
Decide(user_input, new_cmd) ==
    /\ pc = "decide"
    /\ IF user_input \in {"clear", "reset"}
       THEN /\ history' = clear(history)
            /\ counters' = [counters EXCEPT !.dropped = NextId]
            /\ UNCHANGED <<pc, step, command, final_status>>
       ELSE IF user_input \in {"c", "exit", "stop"}
       THEN /\ pc' = "ask_clear"
            /\ final_status' = "stopped"
            /\ counters' = [counters EXCEPT !.final = @ + 1]
            /\ UNCHANGED <<history, step, command>>
       ELSE /\ command' = IF user_input \in {"e", "edit"}
                          THEN new_cmd ELSE command
            /\ step' = step + 1
            /\ pc' = "plan"
            /\ UNCHANGED <<history, final_status, counters>>
    /\ UNCHANGED <<config, last_command_signature,
                   consecutive_repetition_count, call, inflight, ret,
                   appended, events, given, cancelled>>

\* lines 204-212 and the returns of lines 247, 385 and 407: `results` is the
\* history list itself, so it shows the list as ask_clear_history left it
AskClear(clear_input) ==
    /\ pc = "ask_clear"
    /\ history' = IF clear_input \in {"y", "yes"}
                  THEN clear(history) ELSE history
    /\ ret' = [status |-> final_status, results |-> history',
               final_summary |-> IF llm THEN "set" ELSE "none"]
    /\ pc' = "done"
    /\ UNCHANGED <<config, command, step, last_command_signature,
                   consecutive_repetition_count, call, inflight, final_status,
                   appended, events, given, counters, cancelled>>

Next ==
    \/ \E response \in ModelOutputs : Plan(response)
    \/ PlanNoLLM
    \/ LoopExit
    \/ \E confirm \in {"y", "n"} : Confirm(confirm)
    \/ \E status \in {"success", "error"} : ProviderReturn(status)
    \/ ProviderRaise
    \/ \E user_input \in {"", "c", "e", "r", "clear"}, new_cmd \in Goals :
           Decide(user_input, new_cmd)
    \/ \E clear_input \in {"y", "n"} : AskClear(clear_input)

Spec == Init /\ [][Next]_vars

----------------------------------------------------------------------------
(* The step loop under a caller that cancels the task *)

\* the caller cancels the task while it awaits the provider: CancelledError
\* is thrown into the await. The remote provider lets it through to the
\* router, which catches it like any exception (router.py line 335); the
\* local provider turns it into an error envelope (local_mcp.py line 448)
Cancel ==
    /\ pc = "dispatch"
    /\ inflight # 0
    /\ ~cancelled.fired
    /\ cancelled' = [fired |-> TRUE, models |-> ModelCalls,
                     appended |-> appended, providers |-> LastEvent.providers]
    /\ IF mcps[inflight] = "cloud"
       THEN Failover
       ELSE Record(MkResult("error", "local", 10))

NextCancel == Next \/ Cancel

SpecCancel == Init /\ [][NextCancel]_vars

----------------------------------------------------------------------------
(* The API server: one session and the requests made to it *)

\* the variables of the step loop
loop == <<pc, llm, security, auto_continue, max_steps, max_tokens, command,
          history, step, last_command_signature,
          consecutive_repetition_count, call, inflight, final_status, ret,
          history_before, appended, events, given, counters, cancelled>>

\* no invocation of the step loop in progress
LoopIdle ==
    /\ pc = "idle"
    /\ llm = TRUE
    /\ security = MkSecurity(TRUE, FALSE, FALSE)
    /\ auto_continue = FALSE
    /\ max_steps = 1
    /\ max_tokens = 4096
    /\ command = "g0"
    /\ history = <<>>
    /\ step = 0
    /\ last_command_signature = None
    /\ consecutive_repetition_count = 0
    /\ call = NoCall
    /\ inflight = 0
    /\ final_status = "none"
    /\ ret = NoReturn
    /\ history_before = <<>>
    /\ appended = 0
    /\ events = [prev |-> Event(None, "none"), cur |-> Event(None, "none"),
                 streak |-> 0, clean |-> FALSE]
    /\ given = [step |-> -1, history |-> <<>>, from |-> <<>>]
    /\ counters = [plan |-> 0, final |-> 0, summary |-> 0, dropped |-> 0]
    /\ cancelled = [fired |-> FALSE, models |-> 0, appended |-> 0,
                    providers |-> 0]

\* api_server.py lines 316-319: the execution histories of the session's
\* command_execution items, one after the other, in a new list
RECURSIVE AgentHistory(_)
AgentHistory(session_history) ==
    IF session_history = <<>> THEN <<>>
    ELSE LET item == Head(session_history)
         IN  (IF item.type = "command_execution"
              THEN item.execution_history ELSE <<>>)
             \o AgentHistory(Tail(session_history))

\* the entries an invocation appends, named by the request and the step
NewEntries(n, from, to) ==
    [i \in 1..(to - from + 1) |-> [request |-> n, entry |-> from + i - 1]]

\* what the user does during an invocation: how many steps append an entry,
\* after which of them (0: never) the user last typed 'clear' at the
\* decision gate, and the answer to the final clear-history prompt
Runs ==
    { r \in [appends : 0..MaxAppends, cleared_after : 0..MaxAppends,
             clear_input : {"y", "n"}] : r.cleared_after <= r.appends }

\* the list execute_interactive is passed, appends to and returns as
\* results: emptied by 'clear' at the gate (agent.py line 367) and by
\* ask_clear_history (agent.py line 211); ended is the list as it was before
\* the final prompt
execute_interactive(agent_history, n, run) ==
    LET ended == IF run.cleared_after = 0
                 THEN agent_history \o NewEntries(n, 1, run.appends)
                 ELSE NewEntries(n, run.cleared_after + 1, run.appends)
    IN  [results |-> IF run.clear_input \in {"y", "yes"} THEN <<>> ELSE ended,
         ended |-> ended]

InitSession ==
    /\ LoopIdle
    /\ services = DefaultServices
    /\ OutsideIdle
    /\ RestIdle

\* POST /command/execute, api_server.py lines 303-344
ExecuteCommand(run) ==
    /\ served.n < MaxRequests
    /\ LET session_history == active_sessions
           agent_history == AgentHistory(session_history)
           result == execute_interactive(agent_history, served.n + 1, run)
       IN  /\ active_sessions' =
                  Append(active_sessions,
                         [type |-> "command_execution",
                          execution_history |-> result.results])
           /\ served' = [n |-> served.n + 1,
                         started |-> agent_history,
                         ended |-> result.ended,
                         clear_input |-> run.clear_input,
                         prev_ended |-> served.ended,
                         prev_clear |-> served.clear_input,
                         steps |-> served.steps
                                   \o NewEntries(served.n + 1, 1, run.appends),
                         cleared |-> \/ served.cleared
                                     \/ run.cleared_after > 0
                                     \/ run.clear_input \in {"y", "yes"},
                         before |-> [steps |-> served.steps,
                                     cleared |-> served.cleared]]
    /\ UNCHANGED <<loop, rest, services, op, returned>>

\* POST /tools/call, api_server.py lines 180-211: the result is recorded as
\* a tool_call item
ToolCall ==
    /\ served.n < MaxRequests
    /\ active_sessions' =
           Append(active_sessions,
                  [type |-> "tool_call", execution_history |-> <<>>])
    /\ served' = [served EXCEPT !.n = @ + 1]
    /\ UNCHANGED <<loop, rest, services, op, returned>>

\* POST /session/manage with clear_history, api_server.py lines 355-358
ManageSession ==
    /\ served.n < MaxRequests
    /\ active_sessions' = <<>>
    /\ served' = [served EXCEPT !.n = @ + 1, !.ended = <<>>,
                                !.cleared = TRUE,
                                !.clear_input = "managed"]
    /\ UNCHANGED <<loop, rest, services, op, returned>>

NextSession ==
    \/ \E run \in Runs : ExecuteCommand(run)
    \/ ToolCall
    \/ ManageSession

SpecSession == InitSession /\ [][NextSession]_vars

----------------------------------------------------------------------------
(* The router: tool catalog and tool dispatch *)

\* names of the services of the configuration, in the order of the file
ProviderNames == <<"first", "second", "third", "fourth", "fifth">>

\* what call_tool returns: LocalMCPAdapter a dict, AsyncCloudMCPAdapter
\* the CallToolResult of the MCP session
Natives == {"dict", "CallToolResult"}

\* what list_tools returns; a remote provider that fails to list returns []
ToolLists ==
    { <<>>, <<"move_mouse">>, <<"move_mouse", "execute_shell">>,
      <<"execute_shell", "move_mouse">> }

\* the registrations explored for catalog and dispatch: n providers, each
\* of either kind and with any of the tool lists
DispatchServices(n) ==
    { [i \in 1..n |->
          MkService(ProviderNames[i], f[i][1], 0, TRUE, {}, f[i][2])] :
      f \in [1..n -> Natives \X ToolLists] }

\* get_all_tools: every provider's tools in the provider's order, providers
\* in the order of self.mcps, each tool stamped with mcp_name
RECURSIVE MutGetAllToolsLastFirst(_)
MutGetAllToolsLastFirst(svcs) ==
    IF svcs = <<>> THEN <<>>
    ELSE LET mcp == Head(svcs)
         IN  MutGetAllToolsLastFirst(Tail(svcs))
             \o [i \in 1..Len(mcp.tools) |->
                    [name |-> mcp.tools[i], mcp_name |-> mcp.name]]

RECURSIVE get_all_tools(_)
get_all_tools(svcs) ==
    IF svcs = <<>> THEN <<>>
    ELSE LET mcp == Head(svcs)
         IN  [i \in 1..Len(mcp.tools) |->
                 [name |-> mcp.tools[i], mcp_name |-> mcp.name]]
             \o get_all_tools(Tail(svcs))

\* how a call_tool may end: the local provider catches everything and
\* returns a dict, the remote one returns a CallToolResult or raises
CallOutcomes(native) ==
    IF native = "dict" THEN {"success", "error"}
    ELSE {"success", "error", "raise"}

\* the keys of the dict the local provider returns for a tool
DictKeys(tool_name, status) ==
    IF tool_name = "execute_shell"
    THEN {"status", "returncode", "stdout", "stderr"}
    ELSE IF status = "success" THEN {"status", "x", "y"}
         ELSE {"status", "error"}

MkEnvelope(st, keys, mcp, err) ==
    [status |-> st, keys |-> keys, mcp_name |-> mcp, error |-> err]

\* router line 337: no mcp_name key, shown as the empty name
NotFoundEnvelope == MkEnvelope("error", {"status", "error"}, "", "not found")

\* router lines 300-334: a dict is passed through with mcp_name added, a
\* CallToolResult is converted to {status, result, mcp_name}
ProviderEnvelope(mcp, tool_name, outcome) ==
    IF mcp.native = "dict"
    THEN MkEnvelope(outcome,
                    DictKeys(tool_name, outcome) \cup {"mcp_name"}, mcp.name,
                    IF "error" \in DictKeys(tool_name, outcome)
                    THEN "provider" ELSE "none")
    ELSE MkEnvelope(outcome, {"status", "result", "mcp_name"}, mcp.name,
                    "none")

\* execute_tool_call from provider i on: the first provider that lists the
\* tool and does not raise gives the result; called are the providers whose
\* call_tool was awaited
RECURSIVE execute_tool_call(_, _, _, _, _)
execute_tool_call(svcs, i, tool_name, outcome, called) ==
    IF i > Len(svcs)
    THEN [envelope |-> NotFoundEnvelope, called |-> called]
    ELSE IF tool_name \in Range(svcs[i].tools)
         THEN IF outcome[i] = "raise"
              THEN execute_tool_call(svcs, i + 1, tool_name, outcome,
                                     Append(called, i))
              ELSE [envelope |-> ProviderEnvelope(svcs[i], tool_name,
                                                  outcome[i]),
                    called |-> Append(called, i)]
         ELSE execute_tool_call(svcs, i + 1, tool_name, outcome, called)

InitRouter ==
    /\ LoopIdle
    /\ \E n \in 1..MaxProviders : services \in DispatchServices(n)
    /\ OutsideIdle
    /\ RestIdle

\* await router.get_all_tools(); again tells that the call before it was
\* one too, and previous is what that one returned
GetAllTools ==
    /\ op' = [name |-> "get_all_tools",
              again |-> (op.name = "get_all_tools"),
              previous |-> IF op.name = "get_all_tools" THEN returned
                           ELSE <<>>]
    /\ returned' = get_all_tools(services)
    /\ UNCHANGED <<loop, rest, services, active_sessions, served>>

\* await router.execute_tool_call(tool_name, arguments), with the way each
\* provider's call_tool ends
ExecuteToolCall(tool_name, outcome) ==
    /\ \A i \in DOMAIN services :
           outcome[i] \in CallOutcomes(services[i].native)
    /\ LET r == execute_tool_call(services, 1, tool_name, outcome, <<>>)
       IN  /\ op' = [name |-> "execute_tool_call", tool_name |-> tool_name,
                     called |-> r.called,
                     raised |-> {i \in Range(r.called) : outcome[i] = "raise"}]
           /\ returned' = r.envelope
    /\ UNCHANGED <<loop, rest, services, active_sessions, served>>

\* await router.close(): self.mcps.clear()
Close ==
    /\ services # <<>>
    /\ services' = <<>>
    /\ router' = [router EXCEPT !.initialized = FALSE]
    /\ op' = [name |-> "close"]
    /\ returned' = None
    /\ UNCHANGED <<loop, adapter, truncation, requests, active_sessions,
                   served>>

NextRouter ==
    \/ GetAllTools
    \/ \E tool_name \in {"move_mouse", "execute_shell"},
          outcome \in [DOMAIN services -> {"success", "error", "raise"}] :
           ExecuteToolCall(tool_name, outcome)
    \/ Close

SpecRouter == InitRouter /\ [][NextRouter]_vars

----------------------------------------------------------------------------
(* The router: selection of a provider *)

\* the capability tags of providers and of requests
Tags == {"file", "browser"}

\* the registrations explored for selection: n providers, each with any
\* priority, availability and capability set
SelectServices(n) ==
    { [i \in 1..n |->
          MkService(ProviderNames[i], "dict", f[i][1], f[i][2], f[i][3],
                    <<"move_mouse">>)] :
      f \in [1..n -> (0..MaxPriority) \X BOOLEAN \X SUBSET Tags] }

\* get_available_mcps: the providers whose is_available() holds, in the
\* order of self.mcps
MutGetAvailableAll(svcs) == svcs

RECURSIVE get_available_mcps(_)
get_available_mcps(svcs) ==
    IF svcs = <<>> THEN <<>>
    ELSE (IF Head(svcs).available THEN <<Head(svcs)>> ELSE <<>>)
         \o get_available_mcps(Tail(svcs))

\* sorted(available_mcps, key=priority, reverse=True): a stable sort, so
\* providers of equal priority keep their order
RECURSIVE MutSortedTiesReversed(_)
MutSortedTiesReversed(available_mcps) ==
    IF available_mcps = <<>> THEN <<>>
    ELSE LET top == CHOOSE p \in {m.priority : m \in Range(available_mcps)} :
                        \A m \in Range(available_mcps) : m.priority <= p
             IsTop(m) == m.priority = top
             NotTop(m) == m.priority # top
             tops == SelectSeq(available_mcps, IsTop)
         IN  [i \in 1..Len(tops) |-> tops[Len(tops) + 1 - i]]
             \o MutSortedTiesReversed(SelectSeq(available_mcps, NotTop))

RECURSIVE sorted_mcps(_)
sorted_mcps(available_mcps) ==
    IF available_mcps = <<>> THEN <<>>
    ELSE LET top == CHOOSE p \in {m.priority : m \in Range(available_mcps)} :
                        \A m \in Range(available_mcps) : m.priority <= p
             IsTop(m) == m.priority = top
             NotTop(m) == m.priority # top
         IN  SelectSeq(available_mcps, IsTop)
             \o sorted_mcps(SelectSeq(available_mcps, NotTop))

\* sum(1 for cap in required_capabilities if cap in mcp_capabilities)
match_count(mcp, required_capabilities) ==
    Cardinality(required_capabilities \cap mcp.capabilities)

\* router lines 109-119: the first provider of the sorted list whose match
\* count is greater than every count before it
RECURSIVE best_match(_, _, _, _)
best_match(sorted, required_capabilities, best, best_match_count) ==
    IF sorted = <<>> THEN best
    ELSE LET mcp == Head(sorted)
             count == match_count(mcp, required_capabilities)
         IN  IF count > best_match_count
             THEN best_match(Tail(sorted), required_capabilities,
                             <<mcp.name>>, count)
             ELSE best_match(Tail(sorted), required_capabilities, best,
                             best_match_count)

\* select_mcp_by_capability, router lines 76-119; the selected (name, mcp)
\* pair is shown as <<name>>
MutSelectIgnoresMatch(svcs, required_capabilities) ==
    LET available_mcps == get_available_mcps(svcs)
    IN  IF available_mcps = <<>> THEN None
        ELSE <<sorted_mcps(available_mcps)[1].name>>

select_mcp_by_capability(svcs, required_capabilities) ==
    LET available_mcps == get_available_mcps(svcs)
        HasAll(mcp) == required_capabilities \subseteq mcp.capabilities
    IN  IF available_mcps = <<>> THEN None
        ELSE IF required_capabilities = {} THEN <<available_mcps[1].name>>
        ELSE LET sorted == sorted_mcps(available_mcps)
                 full == SelectSeq(sorted, HasAll)
             IN  IF full # <<>> THEN <<full[1].name>>
                 ELSE best_match(sorted, required_capabilities, None, -1)

\* select_mcp_by_priority, router lines 121-139
select_mcp_by_priority(svcs) ==
    LET available_mcps == get_available_mcps(svcs)
    IN  IF available_mcps = <<>> THEN None
        ELSE <<sorted_mcps(available_mcps)[1].name>>

InitSelect ==
    /\ LoopIdle
    /\ \E n \in 1..MaxProviders : services \in SelectServices(n)
    /\ OutsideIdle
    /\ RestIdle

\* await router.select_mcp_by_capability(required_capabilities)
SelectByCapability(required_capabilities) ==
    /\ op' = [name |-> "select_mcp_by_capability",
              required |-> required_capabilities]
    /\ returned' = select_mcp_by_capability(services, required_capabilities)
    /\ UNCHANGED <<loop, rest, services, active_sessions, served>>

\* await router.select_mcp_by_priority()
SelectByPriority ==
    /\ op' = [name |-> "select_mcp_by_priority", required |-> {}]
    /\ returned' = select_mcp_by_priority(services)
    /\ UNCHANGED <<loop, rest, services, active_sessions, served>>

NextSelect ==
    \/ \E required_capabilities \in SUBSET Tags :
           SelectByCapability(required_capabilities)
    \/ SelectByPriority

SpecSelect == InitSelect /\ [][NextSelect]_vars

----------------------------------------------------------------------------
(* The router: start-up, routing strategy and command execution *)

\* self.routing_strategy; any other value takes the capability_match branch
\* (router.py line 181)
Strategies == {"capability_match", "priority_first", "load_balance"}

\* how the start-up of a configured service goes: enabled is false in the
\* configuration; MCPFactory.create returns None; connect raises; connect
\* returns False; connect succeeds
Startups == {"disabled", "uncreated", "raises", "false", "ok"}

\* one service of the configuration, not yet created
MkConfigured(n, startup, prio, caps) ==
    [name |-> n, startup |-> startup, priority |-> prio,
     capabilities |-> caps, registered |-> FALSE, available |-> FALSE]

\* configurations whose services differ in how they start
StartupServices(n) ==
    { [i \in 1..n |-> MkConfigured(ProviderNames[i], f[i], 0, {"file"})] :
      f \in [1..n -> Startups] }

\* configurations whose services all start and differ in capabilities (no
\* tag or one); the priorities go round 0..MaxPriority, so that a later
\* service may have the higher one
RoutedServices(n) ==
    { [i \in 1..n |-> MkConfigured(ProviderNames[i], "ok",
                                   (i - 1) % (MaxPriority + 1), f[i])] :
      f \in [1..n -> {c \in SUBSET Tags : Cardinality(c) <= 1}] }

\* self.mcps: the registered services, in the order of registration (the
\* order of the configuration)
Registry(svcs) ==
    LET IsRegistered(m) == m.registered
    IN  SelectSeq(svcs, IsRegistered)

\* router.py lines 40-60, for one service: it is registered when connect
\* returns, whatever it returns
Connect(m) ==
    [m EXCEPT !.registered = (m.startup \in {"ok", "false"}),
              !.available = (m.startup = "ok")]

\* MCPRouter.initialize, router.py lines 30-62
initialize(rt, svcs) ==
    IF rt.initialized THEN [router |-> rt, services |-> svcs, result |-> TRUE]
    ELSE LET connected == [i \in DOMAIN svcs |-> Connect(svcs[i])]
             ok == Registry(connected) # <<>>
         IN  [router |-> [rt EXCEPT !.initialized = ok],
              services |-> connected, result |-> ok]

\* select_mcp_by_load_balance, router.py lines 141-153: random.choice picks
\* the element at index choice
select_mcp_by_load_balance(svcs, choice) ==
    LET available_mcps == get_available_mcps(svcs)
    IN  IF available_mcps = <<>> THEN None
        ELSE <<available_mcps[((choice - 1) % Len(available_mcps)) + 1].name>>

\* MCPRouter.select_mcp, router.py lines 155-181
select_mcp(rt, svcs, required_capabilities, choice) ==
    LET started == initialize(rt, svcs)
        registry == Registry(started.services)
        selected ==
            IF ~started.result THEN None
            ELSE IF rt.routing_strategy = "capability_match"
            THEN select_mcp_by_capability(registry, required_capabilities)
            ELSE IF rt.routing_strategy = "priority_first"
            THEN select_mcp_by_priority(registry)
            ELSE IF rt.routing_strategy = "load_balance"
            THEN select_mcp_by_load_balance(registry, choice)
            ELSE select_mcp_by_capability(registry, required_capabilities)
    IN  [router |-> started.router, services |-> started.services,
         selected |-> selected]

\* router.py line 223: the available providers other than the selected one
MutOtherMcpsReversed(available_mcps, name) ==
    LET IsOther(m) == m.name # name
        others == SelectSeq(available_mcps, IsOther)
    IN  [i \in 1..Len(others) |-> others[Len(others) + 1 - i]]

other_mcps(available_mcps, name) ==
    LET IsOther(m) == m.name # name
    IN  SelectSeq(available_mcps, IsOther)

\* what execute_command returns: the status, the mcp_name key (None when
\* absent), whether the fallback key is set, and which error text it holds
MkCommandResult(st, mcp, fb, err) ==
    [status |-> st, mcp_name |-> mcp, fallback |-> fb, error |-> err]

\* router.py lines 233-248: the other providers tried in turn; outcome gives
\* the way the first, second, ... call of a provider's execute_command ends
RECURSIVE try_others(_, _, _, _)
try_others(others, name, outcome, tried) ==
    IF others = <<>>
    THEN [result |-> MkCommandResult("error", <<name>>, FALSE, "all failed"),
          tried |-> tried]
    ELSE LET other_name == Head(others).name
             ends == outcome[Len(tried) + 1]
         IN  IF ends # "raise"
             THEN [result |-> MkCommandResult(ends, <<other_name>>, TRUE,
                                              "none"),
                   tried |-> Append(tried, other_name)]
             ELSE try_others(Tail(others), name, outcome,
                             Append(tried, other_name))

\* the calls of execute_command made on providers during one command: the
\* first 'raising' of them raise, the next one returns a record whose
\* status is 'ends'
CommandOutcome(raising, ends) ==
    [attempt \in 1..(MaxRouted + 1) |->
        IF attempt <= raising THEN "raise" ELSE ends]

\* MCPRouter.execute_command, router.py lines 183-248
execute_command(rt, svcs, required_capabilities, confirm, choice, outcome) ==
    LET picked == select_mcp(rt, svcs, required_capabilities, choice)
        Same == [router |-> rt, services |-> svcs, selected |-> None,
                 tried |-> <<>>]
        After == [router |-> picked.router, services |-> picked.services,
                  selected |-> picked.selected, tried |-> <<>>]
    IN  IF "shell" \in required_capabilities /\ confirm \notin {"yes", "y"}
        THEN Same @@
             [result |-> MkCommandResult("cancelled", None, FALSE,
                                         "cancelled")]
        ELSE IF picked.selected = None
        THEN After @@
             [result |-> MkCommandResult("error", None, FALSE,
                                         "no available")]
        ELSE LET name == picked.selected[1]
                 others == other_mcps(
                               get_available_mcps(Registry(picked.services)),
                               name)
             IN  IF outcome[1] # "raise"
                 THEN [After EXCEPT !.tried = <<name>>] @@
                      [result |-> MkCommandResult(outcome[1], <<name>>,
                                                  FALSE, "none")]
                 ELSE IF others = <<>>
                 THEN [After EXCEPT !.tried = <<name>>] @@
                      [result |-> MkCommandResult("error", <<name>>, FALSE,
                                                  "failed")]
                 ELSE LET r == try_others(others, name, outcome, <<name>>)
                      IN  [After EXCEPT !.tried = r.tried] @@
                          [result |-> r.result]

\* a router not yet started: with the default strategy and services that
\* differ in how they start, or with any strategy and services that differ
\* in what they can do
InitRoute ==
    /\ LoopIdle
    /\ OutsideIdle
    /\ adapter = NoAdapter
    /\ truncation = NoTruncation
    /\ requests = <<>>
    /\ \E n \in 1..MaxRouted :
           \/ /\ services \in StartupServices(n)
              /\ router = [RouterReady EXCEPT !.initialized = FALSE]
           \/ /\ services \in RoutedServices(n)
              /\ router \in [initialized : {FALSE},
                             routing_strategy : Strategies]

\* await router.initialize(); op and returned tell the last call made and
\* what it returned, until the caller has it
Initialize ==
    /\ op = NoOp
    /\ LET started == initialize(router, services)
       IN  /\ router' = started.router
           /\ services' = started.services
           /\ returned' = started.result
    /\ op' = [name |-> "initialize"]
    /\ UNCHANGED <<loop, adapter, truncation, requests, active_sessions,
                   served>>

\* await router.select_mcp(required_capabilities)
SelectMcp(required_capabilities, choice) ==
    /\ op = NoOp
    /\ choice = 1 \/ router.routing_strategy = "load_balance"
    /\ LET picked == select_mcp(router, services, required_capabilities,
                                choice)
       IN  /\ router' = picked.router
           /\ services' = picked.services
           /\ returned' = picked.selected
    /\ op' = [name |-> "select_mcp", required |-> required_capabilities]
    /\ UNCHANGED <<loop, adapter, truncation, requests, active_sessions,
                   served>>

\* await router.execute_command(command, required_capabilities), with the
\* answer to the shell confirmation (asked for a shell command only), the
\* random choice (made under load_balance only) and the way each call of a
\* provider's execute_command ends
RouterExecuteCommand(required_capabilities, confirm, choice, outcome) ==
    /\ op = NoOp
    /\ choice = 1 \/ router.routing_strategy = "load_balance"
    /\ confirm = "yes" \/ "shell" \in required_capabilities
    /\ LET r == execute_command(router, services, required_capabilities,
                                confirm, choice, outcome)
       IN  /\ router' = r.router
           /\ services' = r.services
           /\ returned' = r.result
           /\ op' = [name |-> "execute_command",
                     required |-> required_capabilities,
                     selected |-> r.selected, tried |-> r.tried,
                     ended |-> SubSeq(outcome, 1, Len(r.tried))]
    /\ UNCHANGED <<loop, adapter, truncation, requests, active_sessions,
                   served>>

\* a registered provider's is_available() changes its answer (its
\* connection is lost, or is back)
SetAvailable(k, b) ==
    /\ op = NoOp
    /\ services[k].registered
    /\ services[k].available # b
    /\ services' = [services EXCEPT ![k].available = b]
    /\ UNCHANGED <<loop, rest, op, returned, active_sessions, served>>

\* the caller has what the call returned; the router's methods are called
\* one after the other
Return ==
    /\ op # NoOp
    /\ op' = NoOp
    /\ returned' = None
    /\ UNCHANGED <<loop, rest, services, active_sessions, served>>

\* await router.close(), router.py lines 250-266: every provider is
\* disconnected, self.mcps is cleared
CloseRouter ==
    /\ op = NoOp
    /\ router.initialized
    /\ services' = [i \in DOMAIN services |->
                        [services[i] EXCEPT !.registered = FALSE,
                                            !.available = FALSE]]
    /\ router' = [router EXCEPT !.initialized = FALSE]
    /\ op' = [name |-> "close"]
    /\ returned' = None
    /\ UNCHANGED <<loop, adapter, truncation, requests, active_sessions,
                   served>>

NextRoute ==
    \/ Initialize
    \/ \E required_capabilities \in SUBSET Tags, choice \in 1..MaxRouted :
           SelectMcp(required_capabilities, choice)
    \/ \E required_capabilities \in (SUBSET Tags) \cup {{"shell"}},
          confirm \in {"yes", "no"}, choice \in 1..MaxRouted,
          raising \in 0..Len(services), ends \in {"success", "error"} :
           RouterExecuteCommand(required_capabilities, confirm, choice,
                                CommandOutcome(raising, ends))
    \/ \E k \in DOMAIN services, b \in BOOLEAN : SetAvailable(k, b)
    \/ CloseRouter
    \/ Return

SpecRoute == InitRoute /\ [][NextRoute]_vars

----------------------------------------------------------------------------
(* One provider adapter: connection, remote call with retries, disconnect *)

\* no call of call_tool made yet
NoToolCall ==
    [pc |-> "idle", retries |-> 0, delay |-> 0, attempt |-> 0,
     events |-> <<>>, result |-> "none", name |-> "none",
     inside |-> "none"]

\* ghost: a method called on the adapter: which one, the context exits it
\* awaited and whether it raised; Called adds the connection it found
MkMethod(m, exits, raised) == [method |-> m, exits |-> exits, raised |-> raised]

NoMethod ==
    [method |-> "none", exits |-> <<>>, raised |-> FALSE, found |-> "none"]

\* AsyncCloudMCPAdapter.__init__ (session, _session_ctx, _client_ctx and
\* _client are None) and LocalMCPAdapter.__init__ (connected is False);
\* last and prev are the last two methods called
NewAdapter(kind) ==
    [kind |-> kind, session |-> FALSE, session_ctx |-> FALSE,
     client_ctx |-> FALSE, client |-> FALSE, connected |-> FALSE,
     call |-> NoToolCall, last |-> NoMethod, prev |-> NoMethod]

\* the fields of the adapter that hold its connection
Connection(a) ==
    [session |-> a.session, session_ctx |-> a.session_ctx,
     client_ctx |-> a.client_ctx, client |-> a.client,
     connected |-> a.connected]

\* the adapter after a method that found it as 'was' and left it as 'a':
\* the method is noted, the one before it kept
Called(was, a, m) ==
    [a EXCEPT !.prev = was.last,
              !.last = m @@ [found |-> Connection(was)]]

\* AsyncCloudMCPAdapter.connect, async_cloud_mcp.py lines 71-83; at tells
\* which await raises, if any; an error of get_capabilities is caught
connect(a, at) ==
    LET opened == [a EXCEPT !.client_ctx = TRUE]
        entered == [opened EXCEPT !.client = TRUE, !.session_ctx = TRUE]
        bound == [entered EXCEPT !.session = TRUE]
    IN  IF at = "client" THEN Called(a, opened, MkMethod("connect", <<>>, TRUE))
        ELSE IF at = "session"
        THEN Called(a, entered, MkMethod("connect", <<>>, TRUE))
        ELSE IF at = "initialize"
        THEN Called(a, bound, MkMethod("connect", <<>>, TRUE))
        ELSE Called(a, bound, MkMethod("connect", <<>>, FALSE))

\* AsyncCloudMCPAdapter.disconnect, async_cloud_mcp.py lines 85-93; ends
\* tells how the __aexit__ of the session context and of the client context
\* end when they are awaited
disconnect(a, ends) ==
    LET first == a.session /\ a.session_ctx
        closed == IF first
                  THEN [a EXCEPT !.session = FALSE, !.session_ctx = FALSE]
                  ELSE a
        exits == IF first THEN <<"session">> ELSE <<>>
    IN  IF first /\ ends.session = "raise"
        THEN Called(a, a, MkMethod("disconnect", <<"session">>, TRUE))
        ELSE IF closed.client_ctx
        THEN IF ends.client = "raise"
             THEN Called(a, closed, MkMethod("disconnect",
                                          Append(exits, "client"), TRUE))
             ELSE Called(a, [closed EXCEPT !.client_ctx = FALSE,
                                        !.client = FALSE],
                         MkMethod("disconnect", Append(exits, "client"),
                                  FALSE))
        ELSE Called(a, closed, MkMethod("disconnect", exits, FALSE))

\* one adapter of either kind, just created
InitAdapter ==
    /\ LoopIdle
    /\ services = DefaultServices
    /\ OutsideIdle
    /\ router = RouterReady
    /\ adapter \in {NewAdapter("cloud"), NewAdapter("local")}
    /\ truncation = NoTruncation
    /\ requests = <<>>

\* no call of call_tool is under way
Quiet == adapter.call.pc \notin {"attempt", "sleep"}

\* everything but the adapter
notAdapter == <<loop, services, op, returned, active_sessions, served,
                router, truncation, requests>>

\* await adapter.connect() on a remote adapter that holds no connection
CloudConnect(at) ==
    /\ adapter.kind = "cloud"
    /\ Quiet
    /\ Connection(adapter) = Connection(NewAdapter("cloud"))
    /\ adapter' = connect(adapter, at)
    /\ UNCHANGED notAdapter

\* await adapter.disconnect() on a remote adapter
CloudDisconnect(ends) ==
    /\ adapter.kind = "cloud"
    /\ Quiet
    /\ adapter' = disconnect(adapter, ends)
    /\ UNCHANGED notAdapter

\* LocalMCPAdapter.connect, local_mcp.py lines 29-38
LocalConnect ==
    /\ adapter.kind = "local"
    /\ adapter' = Called(adapter, [adapter EXCEPT !.connected = TRUE],
                         MkMethod("connect", <<>>, FALSE))
    /\ UNCHANGED notAdapter

\* LocalMCPAdapter.disconnect, local_mcp.py lines 40-44
LocalDisconnect ==
    /\ adapter.kind = "local"
    /\ adapter' = Called(adapter, [adapter EXCEPT !.connected = FALSE],
                         MkMethod("disconnect", <<>>, FALSE))
    /\ UNCHANGED notAdapter

\* tool names a caller passes to the local adapter: one whose branch has no
\* handler of its own, one whose branch catches its own errors, and one
\* the adapter does not know
LocalCallNames == {"read_file", "ocr", "no_such_tool"}

\* LocalMCPAdapter.call_tool, local_mcp.py lines 293-449; inside tells how
\* the tool's implementation ends.  An exception of read_file reaches the
\* handler of lines 448-449, one of ocr the handler of lines 376-377; both
\* return an envelope
MutLocalCallToolPropagates(name, inside) ==
    IF name \notin {"read_file", "ocr"}
    THEN [raised |-> FALSE, status |-> "error", error |-> "Unknown tool"]
    ELSE IF inside = "raise"
    THEN [raised |-> TRUE, status |-> "none", error |-> "exception"]
    ELSE [raised |-> FALSE, status |-> inside, error |-> "none"]

local_call_tool(name, inside) ==
    IF name = "read_file"
    THEN IF inside = "raise"
         THEN [raised |-> FALSE, status |-> "error", error |-> "exception"]
         ELSE [raised |-> FALSE, status |-> inside, error |-> "none"]
    ELSE IF name = "ocr"
    THEN IF inside = "raise"
         THEN [raised |-> FALSE, status |-> "error", error |-> "exception"]
         ELSE [raised |-> FALSE, status |-> inside, error |-> "none"]
    ELSE [raised |-> FALSE, status |-> "error", error |-> "Unknown tool"]

\* await adapter.call_tool(name, arguments) on a local adapter, connected
\* or not: call_tool does not look at self.connected
LocalCallTool(name, inside) ==
    /\ adapter.kind = "local"
    /\ LET envelope == local_call_tool(name, inside)
           call_ == [NoToolCall EXCEPT
                        !.pc = IF envelope.raised THEN "raised"
                               ELSE "returned",
                        !.result = envelope.status,
                        !.name = name, !.inside = inside]
       IN  adapter' = Called(adapter, [adapter EXCEPT !.call = call_],
                             MkMethod("call_tool", <<>>, envelope.raised))
    /\ UNCHANGED notAdapter

\* AsyncCloudMCPAdapter.call_tool, async_cloud_mcp.py lines 128-132: the
\* call is made, attempt is 0; without a session it raises at once, and
\* with retries <= 0 the loop is not entered and None is returned
CallTool(retries, delay) ==
    /\ adapter.kind = "cloud"
    /\ Quiet
    /\ LET started == [NoToolCall EXCEPT !.retries = retries,
                                         !.delay = delay]
           call_ == IF ~adapter.session
                    THEN [started EXCEPT !.pc = "raised",
                                         !.result = "Not connected"]
                    ELSE IF ~(0 < retries)
                    THEN [started EXCEPT !.pc = "returned",
                                         !.result = "None"]
                    ELSE [started EXCEPT !.pc = "attempt"]
       IN  adapter' = Called(adapter, [adapter EXCEPT !.call = call_],
                             MkMethod("call_tool", <<>>, ~adapter.session))
    /\ UNCHANGED notAdapter

\* lines 133-142: one await of self.session.call_tool; ends tells how it
\* ends.  A result is returned at once; after an error attempt is
\* incremented and either the delay comes next or, at the last attempt,
\* the error is raised again
MutAttemptOneMore(c, ends) ==
    IF ends = "ok"
    THEN [c EXCEPT !.pc = "returned", !.result = "result",
                   !.events = Append(@, <<"call", "ok">>)]
    ELSE [c EXCEPT !.attempt = @ + 1,
                   !.events = Append(@, <<"call", "error">>),
                   !.pc = IF c.attempt < c.retries THEN "sleep"
                          ELSE "raised",
                   !.result = IF c.attempt < c.retries THEN "none"
                              ELSE "error"]

attempted(c, ends) ==
    IF ends = "ok"
    THEN [c EXCEPT !.pc = "returned", !.result = "result",
                   !.events = Append(@, <<"call", "ok">>)]
    ELSE [c EXCEPT !.attempt = @ + 1,
                   !.events = Append(@, <<"call", "error">>),
                   !.pc = IF c.attempt + 1 < c.retries THEN "sleep"
                          ELSE "raised",
                   !.result = IF c.attempt + 1 < c.retries THEN "none"
                              ELSE "error"]

MutAttemptDropsSession(ends) ==
    /\ adapter.call.pc = "attempt"
    /\ adapter' = [adapter EXCEPT
                      !.call = attempted(@, ends),
                      !.session = IF attempted(adapter.call, ends).pc = "raised"
                                  THEN FALSE ELSE @]
    /\ UNCHANGED notAdapter

Attempt(ends) ==
    /\ adapter.call.pc = "attempt"
    /\ adapter' = [adapter EXCEPT !.call = attempted(@, ends)]
    /\ UNCHANGED notAdapter

\* line 139: await asyncio.sleep(delay)
Sleep ==
    /\ adapter.call.pc = "sleep"
    /\ adapter' = [adapter EXCEPT
                      !.call.pc = "attempt",
                      !.call.events = Append(@, <<"sleep", adapter.call.delay>>)]
    /\ UNCHANGED notAdapter

NextAdapter ==
    \/ \E at \in {"none", "client", "session", "initialize"} :
           CloudConnect(at)
    \/ \E ends \in [session : {"ok", "raise"}, client : {"ok", "raise"}] :
           CloudDisconnect(ends)
    \/ LocalConnect
    \/ LocalDisconnect
    \/ \E retries \in 0..MaxRetries, delay \in {1, 2} :
           CallTool(retries, delay)
    \/ \E ends \in {"ok", "error"} : Attempt(ends)
    \/ Sleep
    \/ \E name \in LocalCallNames, inside \in {"success", "error", "raise"} :
           LocalCallTool(name, inside)

SpecAdapter == InitAdapter /\ [][NextAdapter]_vars

----------------------------------------------------------------------------
(* The context manager: _truncate_history on its own *)

\* lengths of the text in an entry's result: short, long, and longer than
\* the default budget
PayloadLens == {10, 1000, 4000}

\* values of max_tokens: with reserved_tokens taken off they leave less
\* than nothing, nothing, one short entry, two short entries, one entry cut
\* to 1000 characters, the default budget (one entry cut to 2000), and more
\* than any entry
Limits == {900, 1000, 1040, 1100, 2100, 4096, 6000}

\* the histories of n entries
Histories(n) ==
    { [i \in 1..n |-> ToolEntry(i, Shell, MkResult("success", "local", f[i]))] :
      f \in [1..n -> PayloadLens] }

\* a history and two values of max_tokens, the first not above the second;
\* done tells under which of them _truncate_history has been called, low
\* and high what it returned
InitTruncate ==
    /\ LoopIdle
    /\ services = DefaultServices
    /\ OutsideIdle
    /\ router = RouterReady
    /\ adapter = NoAdapter
    /\ requests = <<>>
    /\ \E n \in 0..MaxHistory, lo \in Limits, hi \in Limits :
           /\ lo <= hi
           /\ \E h \in Histories(n) :
                  truncation =
                      [called |-> TRUE, history |-> h,
                       max_tokens |-> [low |-> lo, high |-> hi],
                       done |-> {},
                       low |-> [history |-> <<>>, truncated |-> FALSE],
                       high |-> [history |-> <<>>, truncated |-> FALSE]]

\* self._truncate_history(history, max_tokens) under one of the two values
Truncate(which) ==
    /\ which \notin truncation.done
    /\ truncation' =
           [truncation EXCEPT
               !.done = @ \cup {which},
               ![which] = _truncate_history(truncation.history,
                                            truncation.max_tokens[which])]
    /\ UNCHANGED <<loop, services, op, returned, active_sessions, served,
                   router, adapter, requests>>

NextTruncate == \E which \in {"low", "high"} : Truncate(which)

SpecTruncate == InitTruncate /\ [][NextTruncate]_vars

----------------------------------------------------------------------------
(* The API server: handlers of one session id that interleave *)

\* Under SpecServe active_sessions is the dictionary itself, a function
\* from session ids to records (created_at, history), and <<>> is the empty
\* dictionary; requests is the list of the handlers started so far, each
\* with its position. created_at is the number of the request that created
\* the record; last_activity is left out (nothing reads it).

SessionId == "s1"

\* get_or_create_session (api_server.py lines 108-119) for a given id:
\* an existing record is left alone, otherwise a new one with an empty
\* history takes its place in the dictionary
get_or_create_session(sessions, session_id, now) ==
    IF session_id \in DOMAIN sessions THEN sessions
    ELSE [k \in DOMAIN sessions \cup {session_id} |->
             IF k = session_id THEN [created_at |-> now, history |-> <<>>]
             ELSE sessions[k]]

\* del active_sessions[session_id]
Without(sessions, session_id) ==
    [k \in DOMAIN sessions \ {session_id} |-> sessions[k]]

\* a handler that has bound its session and is at its first await
MkHandler(kind, at, sessions, session_id) ==
    [kind |-> kind, session_id |-> session_id, pc |-> at,
     bound |-> sessions[session_id].created_at,
     agent_history |-> IF kind = "command_execution"
                       THEN AgentHistory(sessions[session_id].history)
                       ELSE <<>>,
     results |-> 0, status |-> 0, wrote |-> 0]

\* the handlers that have not answered yet
Unanswered == {i \in DOMAIN requests : requests[i].status = 0}

InitServe ==
    /\ LoopIdle
    /\ services = DefaultServices
    /\ OutsideIdle
    /\ RestIdle

\* a handler starts: lines 307-308 and 187-188 run without an await, so the
\* lookup or creation of the record is one step
Bind(kind, at) ==
    /\ Len(requests) < MaxRequests
    /\ Cardinality(Unanswered) < MaxConcurrent
    /\ LET sessions == get_or_create_session(active_sessions, SessionId,
                                             Len(requests) + 1)
       IN  /\ active_sessions' = sessions
           /\ requests' = Append(requests,
                                 MkHandler(kind, at, sessions, SessionId))
    /\ UNCHANGED <<loop, services, op, returned, served, router, adapter,
                   truncation>>

\* POST /command/execute up to 'await agent.execute_interactive', lines
\* 303-326: the session's history is read before the await
PostCommandExecute == Bind("command_execution", "awaiting")

\* POST /tools/call up to 'await agent.mcp_router.execute_tool_call', lines
\* 183-194
PostToolsCall == Bind("tool_call", "dispatching")

\* inside execute_interactive, called with max_steps = 1: the step
\* dispatches its tool call
StepDispatch(i) ==
    /\ requests[i].kind = "command_execution"
    /\ requests[i].pc = "awaiting"
    /\ requests[i].results = 0
    /\ requests' = [requests EXCEPT ![i].pc = "dispatching"]
    /\ UNCHANGED <<loop, services, op, returned, active_sessions, served,
                   router, adapter, truncation>>

\* inside execute_interactive: the dispatch returns and its entry is
\* appended to the list of the invocation
StepReturn(i) ==
    /\ requests[i].kind = "command_execution"
    /\ requests[i].pc = "dispatching"
    /\ requests' = [requests EXCEPT ![i].pc = "awaiting",
                                    ![i].results = @ + 1]
    /\ UNCHANGED <<loop, services, op, returned, active_sessions, served,
                   router, adapter, truncation>>

\* the item a handler records, lines 329-336 and 197-203
Item(i) ==
    LET h == requests[i]
        run == [appends |-> h.results, cleared_after |-> 0,
                clear_input |-> "n"]
    IN  [type |-> h.kind, request |-> i,
         execution_history |->
             IF h.kind = "command_execution"
             THEN execute_interactive(h.agent_history, i, run).results
             ELSE <<>>]

\* the await is over: 'active_sessions[session_id]["history"].append(...)',
\* lines 329 and 197, looks the record up again; a missing key raises
\* KeyError, which the handler's 'except Exception' turns into status 500,
\* lines 345-347 and 212-214
AppendItem(i) ==
    /\ requests[i].status = 0
    /\ \/ requests[i].kind = "command_execution" /\ requests[i].pc = "awaiting"
       \/ requests[i].kind = "tool_call" /\ requests[i].pc = "dispatching"
    /\ LET sid == requests[i].session_id
       IN  IF sid \in DOMAIN active_sessions
           THEN /\ active_sessions' =
                       [active_sessions EXCEPT
                           ![sid].history = Append(@, Item(i))]
                /\ requests' =
                       [requests EXCEPT
                           ![i].pc = "answered", ![i].status = 200,
                           ![i].wrote = active_sessions[sid].created_at]
           ELSE /\ active_sessions' = active_sessions
                /\ requests' = [requests EXCEPT ![i].pc = "answered",
                                                ![i].status = 500]
    /\ UNCHANGED <<loop, services, op, returned, served, router, adapter,
                   truncation>>

\* POST /session/manage with clear_history, lines 355-366
PostSessionManage ==
    /\ IF SessionId \in DOMAIN active_sessions
       THEN /\ active_sessions' =
                   [active_sessions EXCEPT ![SessionId].history = <<>>]
            /\ returned' = [status_code |-> 200, action |-> "clear_history"]
       ELSE /\ active_sessions' = active_sessions
            /\ returned' = [status_code |-> 404, action |-> "clear_history"]
    /\ UNCHANGED <<loop, services, op, served, rest>>

\* DELETE /session/{session_id}, lines 401-412
DeleteSession ==
    /\ IF SessionId \in DOMAIN active_sessions
       THEN /\ active_sessions' = Without(active_sessions, SessionId)
            /\ returned' = [status_code |-> 200, action |-> "delete_session"]
       ELSE /\ active_sessions' = active_sessions
            /\ returned' = [status_code |-> 404, action |-> "delete_session"]
    /\ UNCHANGED <<loop, services, op, served, rest>>

NextServe ==
    \/ PostCommandExecute
    \/ PostToolsCall
    \/ \E i \in DOMAIN requests : StepDispatch(i)
    \/ \E i \in DOMAIN requests : StepReturn(i)
    \/ \E i \in DOMAIN requests : AppendItem(i)
    \/ PostSessionManage
    \/ DeleteSession

SpecServe == InitServe /\ [][NextServe]_vars

----------------------------------------------------------------------------
(* One-shot execution: Agent.execute_with_analysis *)

\* the lists of at most n calls the model can propose
Proposals(n) ==
    UNION { [1..k -> ProposalCalls \cup {BadArgs}] : k \in 0..n }

\* the security sections explored: the default, confirmation switched off,
\* and dangerous calls continued automatically
OneShotSecurity ==
    { MkSecurity(TRUE, FALSE, FALSE), MkSecurity(FALSE, FALSE, FALSE),
      MkSecurity(TRUE, TRUE, FALSE) }

\* agent.py lines 145-149: the proposed calls that need a confirmation, in
\* proposal order
RECURSIVE need_confirm_calls(_, _)
need_confirm_calls(tool_calls, sec) ==
    IF tool_calls = <<>> THEN <<>>
    ELSE (IF NeedsConfirm(Head(tool_calls).name, sec)
          THEN <<Head(tool_calls)>> ELSE <<>>)
         \o need_confirm_calls(Tail(tool_calls), sec)

\* a call of execute_with_analysis after the model answered with
\* tool_calls; dispatched is the list of calls handed to the router so far
InitOneShot ==
    /\ LoopIdle
    /\ services = DefaultServices
    /\ returned = None
    /\ active_sessions = <<>>
    /\ served = NoneServed
    /\ RestIdle
    /\ \E calls \in Proposals(MaxProposed), sec \in OneShotSecurity :
           op = [name |-> "execute_with_analysis", pc |-> "check",
                 security |-> sec, tool_calls |-> calls,
                 dispatched |-> <<>>, results |-> <<>>]

\* lines 141-156: the check for dangerous tools, before any dispatch
CheckDangerous ==
    /\ op.pc = "check"
    /\ LET need == need_confirm_calls(op.tool_calls, op.security)
       IN  IF need # <<>>
           THEN /\ op' = [op EXCEPT !.pc = "done"]
                /\ returned' = [status |-> "need_confirm",
                                dangerous_calls |-> need,
                                all_calls |-> op.tool_calls]
           ELSE /\ op' = [op EXCEPT !.pc = "dispatch"]
                /\ returned' = returned
    /\ UNCHANGED <<loop, services, active_sessions, served, rest>>

\* lines 158-162: the next call is handed to the router, which returns an
\* envelope (execute_tool_call catches what a provider raises)
DispatchCall(status) ==
    /\ op.pc = "dispatch"
    /\ Len(op.dispatched) < Len(op.tool_calls)
    /\ LET c == op.tool_calls[Len(op.dispatched) + 1]
       IN  op' = [op EXCEPT
                     !.dispatched = Append(@, c),
                     !.results = Append(@, [tool |-> c.name,
                                            result |-> status])]
    /\ UNCHANGED <<loop, services, returned, active_sessions, served, rest>>

\* line 163: every call has been made
ReturnResults ==
    /\ op.pc = "dispatch"
    /\ Len(op.dispatched) = Len(op.tool_calls)
    /\ op' = [op EXCEPT !.pc = "done"]
    /\ returned' = [status |-> "success", results |-> op.results]
    /\ UNCHANGED <<loop, services, active_sessions, served, rest>>

NextOneShot ==
    \/ CheckDangerous
    \/ \E status \in {"success", "error"} : DispatchCall(status)
    \/ ReturnResults

SpecOneShot == InitOneShot /\ [][NextOneShot]_vars

----------------------------------------------------------------------------
(* Properties of the step loop *)

Last(s) == s[Len(s)]

IsSuffix(a, b) ==
    /\ Len(a) <= Len(b)
    /\ a = SubSeq(b, Len(b) - Len(a) + 1, Len(b))

\* the condition under which the code asks before it dispatches
GateApplies ==
    /\ call.name \in {"execute_shell", "start_process"}
    /\ security.shell_confirm
    /\ ~security.auto_continue_dangerous

\* C1 (as stated): at the loop head, after k completed steps, the history
\* is exactly k entries longer than at entry, whatever the user typed.
C1_AppendOnlyAsStated ==
    pc = "plan" => Len(history) = Len(history_before) + step

\* C1 (amended): at the loop head, after k completed steps, exactly k
\* entries have been appended, one per step, and the history holds the
\* inherited and appended entries minus those that the user's last 'clear'
\* command dropped (all that existed then); nothing else is removed.
C1_AppendOnly ==
    pc = "plan" =>
        /\ appended = step
        /\ Len(history) = Len(history_before) + step - counters.dropped
        /\ \A i \in DOMAIN history :
               history[i].id = counters.dropped + i - 1

\* three steps of three kinds (dispatched, soft-blocked, rejected) done
C1_Witness ==
    /\ pc = "plan"
    /\ step = 3
    /\ Len(history) = Len(history_before) + 3
    /\ \E i \in DOMAIN history : history[i].result.status = "info"
    /\ \E i \in DOMAIN history : history[i].result.status = "cancelled"

\* C2 (as stated): two iterations in a row never both dispatch a call of
\* the same signature, whatever the outcome of the first.
C2_NoRepeatedDispatchAsStated ==
    ~ /\ events.prev.act = "dispatched"
      /\ events.cur.act \in {"dispatching", "dispatched"}
      /\ events.cur.sig = events.prev.sig

\* C2 (amended): a call whose signature equals that of the call dispatched
\* with status success in the iteration just before is never dispatched (nor
\* put to the user for confirmation): it is soft-blocked.
C2_NoRepeatedDispatch ==
    ( /\ events.prev.act = "dispatched"
      /\ events.prev.status = "success"
      /\ events.cur.sig = events.prev.sig )
    => events.cur.act = "soft_block" /\ events.cur.providers = 0

C2_Witness ==
    /\ events.prev.act = "dispatched"
    /\ events.prev.status = "success"
    /\ events.cur.sig = events.prev.sig
    /\ events.cur.act = "soft_block"
    /\ call = MoveYX
    /\ Last(history).command.name = "system_notice"

\* C3 (as stated): once the same signature has been proposed
\* hard_stop_threshold times in a row, the loop has returned status error,
\* with the error entry appended and no final-summary model call.
C3_HardStopAsStated ==
    events.streak >= REPETITION_HARD_STOP_THRESHOLD =>
        /\ pc = "done"
        /\ ret.status = "error"
        /\ counters.final = 0

\* C4: a call whose signature equals last_signature never reaches the
\* confirmation prompt or the router; the step that blocks it appends one
\* system_notice entry with status info, clears last_signature and counts
\* as a step.
C4_SoftBlock ==
    /\ pc \in {"confirm", "dispatch"} =>
           Signature(call) # last_command_signature
    /\ (events.cur.act = "soft_block" /\ pc = "plan") =>
           /\ events.cur.providers = 0
           /\ inflight = 0
           /\ last_command_signature = None
           /\ appended = step
           /\ history # <<>>
           /\ Last(history).id = NextId - 1
           /\ Last(history).command.name = "system_notice"
           /\ Last(history).result.status = "info"
           /\ Last(history).summary = "none"

\* the proposals A, A, B, [] leave three new entries: A's result, the
\* notice, B's result
C4_Witness ==
    /\ pc = "ask_clear"
    /\ events.cur.act = "none"
    /\ counters.plan = 4
    /\ appended = 3
    /\ Len(history) = Len(history_before) + 3
    /\ history[Len(history) - 2].command = MoveXY
    /\ history[Len(history) - 1].command.name = "system_notice"
    /\ history[Len(history)].command = Shell
    /\ history[Len(history)].result.status = "success"

\* C5: a dangerous call that needs confirmation is at the router only after
\* the user accepted the prompt in that iteration; a rejected call is never
\* at the router, is recorded as {command: call, result: cancelled}, counts
\* as a step, and the next planning call is handed a history ending with it.
C5_DangerousGate ==
    /\ (pc = "dispatch" /\ GateApplies) =>
           /\ events.cur.asked
           /\ events.cur.answer \in {"queren", "yes", "y"}
    /\ (events.cur.act = "rejected" /\ pc = "plan") =>
           /\ events.cur.providers = 0
           /\ appended = step
           /\ history # <<>>
           /\ Last(history) =
                  MkEntry(NextId - 1, call, MkResult("cancelled", "", 0), "none")
    /\ (events.prev.act = "rejected" /\ given.step = step) =>
           /\ given.from # <<>>
           /\ Last(given.from).result.status = "cancelled"
           /\ Last(given.from).id = Len(history_before) + given.step - 1

C5_Witness ==
    /\ events.prev.act = "rejected"
    /\ events.prev.answer = "n"
    /\ given.step = step
    /\ events.cur.act = "dispatching"
    /\ events.cur.asked
    /\ events.cur.answer = "y"
    /\ pc = "dispatch"

\* C6 (as stated): whatever the model outputs, no exception leaves the
\* loop.
C6_NeverRaisesAsStated == pc # "raised"

\* C8 (as stated): a return after a hard stop, a user stop or an exhausted
\* step budget has a status other than success.
C8_GuardExitAsStated ==
    ( /\ pc = "done"
      /\ llm
      /\ \/ events.cur.act = "hard_stop"
         \/ final_status = "stopped"
         \/ step >= max_steps )
    => ret.status \in {"stopped", "error"}

\* C9 (as stated): the returned results hold every inherited and every
\* appended entry, whatever the answer to the clear-history prompt.
C9_FullResultsAsStated ==
    pc = "done" =>
        /\ Len(ret.results) = Len(history_before) + appended
        /\ \A i \in DOMAIN ret.results : ret.results[i].id = i - 1

\* C10 (as stated): the planning call of step k is given a suffix of the
\* inherited entries followed by those of steps 1..k-1, each with its
\* summary set.
C10_VisibilityAsStated ==
    given.step >= 0 =>
        /\ Len(given.from) = Len(history_before) + given.step
        /\ \A i \in DOMAIN given.from : given.from[i].id = i - 1
        /\ IsSuffix(given.history, given.from)
        /\ \A i \in DOMAIN given.history : given.history[i].summary = "set"

\* C10 (amended): the planning call of step k is handed the inherited
\* entries followed by those of steps 1..k-1, without the ones a user
\* 'clear' dropped, in append order and each once; the entry of a dispatched
\* call has its summary set, a system notice or a cancelled entry has none.
\* The model is given a newest suffix of that list or, when the newest entry
\* alone exceeds the budget, one copy of it with its long string cut, or
\* nothing.
C10_Visibility ==
    given.step >= 0 =>
        /\ \A i \in DOMAIN given.from :
               /\ given.from[i].id =
                      Len(history_before) + given.step - Len(given.from) + i - 1
               /\ given.from[i].summary =
                      IF given.from[i].result.status \in {"info", "cancelled"}
                      THEN "none" ELSE "set"
        /\ \/ IsSuffix(given.history, given.from)
           \/ /\ given.from # <<>>
              /\ estimate_tokens(Last(given.from)) > max_tokens - reserved_tokens
              /\ \E k \in DOMAIN TruncationCaps :
                     given.history =
                         << [Last(given.from) EXCEPT
                                !.result.len =
                                    TruncationCaps[k] + NoticeLen] >>
        /\ given.history = <<>> =>
               \/ given.from = <<>>
               \/ estimate_tokens(Last(given.from)) > max_tokens - reserved_tokens

\* a planning call that is given a proper, non-empty suffix holding a
\* system notice
C10_Witness ==
    /\ given.step >= 2
    /\ Len(given.history) = 2
    /\ Len(given.from) > 2
    /\ IsSuffix(given.history, given.from)
    /\ \E i \in DOMAIN given.history :
           given.history[i].result.status \in {"info", "cancelled"}

----------------------------------------------------------------------------
(* Properties of the step loop under cancellation *)

\* C7 (as stated): once the caller has cancelled, the loop has returned
\* status stopped, with no model call made, no entry appended and no other
\* provider tried since.
C7_CancelAsStated ==
    cancelled.fired =>
        /\ pc = "done"
        /\ ret.status = "stopped"
        /\ ModelCalls = cancelled.models
        /\ appended = cancelled.appended

\* C12: every transition of the step loop leaves the history unchanged,
\* extends it by exactly one entry at the end, or empties it completely, and
\* it is emptied only where the user is asked (the 'clear' command at the
\* decision gate, the answer yes to the final clear-history prompt); leaving
\* the decision gate by Enter, 'edit', 'replan' or stop leaves the history
\* unchanged, and the goal changes only there ('edit').
C12_ClearedWholeOrNotAtAll ==
    [][ /\ \/ history' = history
           \/ /\ Len(history') = Len(history) + 1
              /\ SubSeq(history', 1, Len(history)) = history
           \/ /\ history' = <<>>
              /\ pc \in {"decide", "ask_clear"}
        /\ (pc = "decide" /\ pc' # "decide") => history' = history
        /\ command' # command =>
               /\ pc = "decide" /\ pc' = "plan"
               /\ history' = history
               /\ step' = step + 1 ]_vars

\* after a 'clear' that dropped an entry and one more step, the user has
\* edited the goal: the entry of that step is still there
C12_Witness ==
    /\ pc = "plan"
    /\ command = "g1"
    /\ counters.dropped > 0
    /\ Len(history) = 1
    /\ history[1].id = counters.dropped

\* the work an invocation has left: ten per step not yet counted, and
\* within an iteration the positions still ahead
Rank ==
    10 * (max_steps - step)
    + CASE pc = "plan" -> 9
        [] pc = "confirm" -> 8
        [] pc = "dispatch" -> 7 - inflight
        [] pc = "decide" -> IF history # <<>> THEN 4 ELSE 3
        [] pc = "ask_clear" -> 1
        [] OTHER -> 0

----------------------------------------------------------------------------
(* Properties of the session history *)

\* C11 (as stated): an invocation that follows one whose clear-history
\* prompt was answered yes starts from an empty history; one that follows
\* an answer no starts from a history that ends with the entries the
\* invocation before it ended with.
C11_ClearOnFinishAsStated ==
    /\ served.prev_clear = "y" => served.started = <<>>
    /\ served.prev_clear = "n" => IsSuffix(served.prev_ended, served.started)

----------------------------------------------------------------------------
(* Properties of the router's catalog and dispatch *)

\* the position of x in a sequence without repetitions
IndexOf(seq, x) == CHOOSE k \in DOMAIN seq : seq[k] = x

\* the position of a catalog entry's provider among the registered ones
ProviderOf(tool) ==
    CHOOSE k \in DOMAIN services : services[k].name = tool.mcp_name

\* C14 (as stated): a catalog holds each tool name at most once, and the
\* descriptor kept for a name is that of the first registered provider that
\* lists it.
C14_CatalogUniqueAsStated ==
    op.name = "get_all_tools" =>
        /\ \A i, j \in DOMAIN returned :
               returned[i].name = returned[j].name => i = j
        /\ \A i \in DOMAIN returned :
               \A k \in DOMAIN services :
                   returned[i].name \in Range(services[k].tools) =>
                       ProviderOf(returned[i]) <= k

\* C15: a catalog lists the providers' tools by provider in registration
\* order and within a provider in the provider's own order, each entry
\* stamped with the id of a provider that lists it; and an aggregation
\* that follows another with nothing in between returns the same entries in
\* the same order.
C15_CatalogDeterminism ==
    op.name = "get_all_tools" =>
        /\ \A i \in DOMAIN returned :
               \E k \in DOMAIN services :
                   /\ services[k].name = returned[i].mcp_name
                   /\ returned[i].name \in Range(services[k].tools)
        /\ \A i, j \in DOMAIN returned :
               i < j =>
                   \/ ProviderOf(returned[i]) < ProviderOf(returned[j])
                   \/ /\ ProviderOf(returned[i]) = ProviderOf(returned[j])
                      /\ IndexOf(services[ProviderOf(returned[i])].tools,
                                 returned[i].name)
                         < IndexOf(services[ProviderOf(returned[j])].tools,
                                   returned[j].name)
        /\ op.again =>
               /\ Len(returned) = Len(op.previous)
               /\ \A i \in DOMAIN returned :
                      returned[i].name = op.previous[i].name

\* the second of two aggregations over three providers, two of which list
\* the same tools in different orders
C15_Witness ==
    /\ op.name = "get_all_tools"
    /\ op.again
    /\ Len(services) = 3
    /\ Len(returned) = 5
    /\ returned = op.previous
    /\ returned[1].name = "execute_shell"
    /\ returned[3].name = "move_mouse"
    /\ returned[3].mcp_name # returned[1].mcp_name

\* C16 (as stated): every envelope of execute_tool_call has a status among
\* success, error, cancelled and info, and a payload field.
C16_EnvelopeShapeAsStated ==
    op.name = "execute_tool_call" =>
        /\ returned.status \in {"success", "error", "cancelled", "info"}
        /\ returned.keys \cap {"payload", "result"} # {}

\* C17 (as stated): the envelope of a provider tried after another one
\* raised carries fallback and the id of that provider; the envelope of the
\* first provider tried carries no fallback.
C17_FailoverMarkAsStated ==
    (op.name = "execute_tool_call" /\ "mcp_name" \in returned.keys) =>
        IF Len(op.called) > 1
        THEN /\ "fallback" \in returned.keys
             /\ returned.mcp_name = services[op.called[Len(op.called)]].name
        ELSE "fallback" \notin returned.keys

\* C18 (as stated): when every provider that lists the tool raised, the
\* envelope is the error of the last of them, not the one returned when no
\* provider lists the tool.
C18_LastErrorAsStated ==
    ( /\ op.name = "execute_tool_call"
      /\ op.called # <<>>
      /\ op.raised = Range(op.called) ) =>
        /\ returned.status = "error"
        /\ returned # NotFoundEnvelope
        /\ returned.mcp_name = services[op.called[Len(op.called)]].name

----------------------------------------------------------------------------
(* Properties of the router's selection *)

\* the positions of the available providers
Available == {k \in DOMAIN services : services[k].available}

\* the providers among cands that hold every tag of req if one of them
\* does, else those that hold the most of them
Qualified(cands, req) ==
    LET full == {k \in cands : req \subseteq services[k].capabilities}
    IN  IF full # {} THEN full
        ELSE {k \in cands :
                 \A j \in cands :
                     Cardinality(req \cap services[j].capabilities)
                     <= Cardinality(req \cap services[k].capabilities)}

\* k wins the tie-break among cands: no other has a higher priority, and
\* none of the same priority was registered before it
WinsTieBreak(k, cands) ==
    /\ k \in cands
    /\ \A j \in cands :
           \/ services[j].priority < services[k].priority
           \/ services[j].priority = services[k].priority /\ k <= j

C20_TieBreakAsStated ==
    (op.name \in {"select_mcp_by_capability", "select_mcp_by_priority"}
     /\ Available # {}) =>
        \E k \in Available :
            /\ returned = <<services[k].name>>
            /\ WinsTieBreak(k, IF op.name = "select_mcp_by_priority"
                               THEN Available
                               ELSE Qualified(Available, op.required))

\* C20 (amended): under priority_first, and under capability_match with at
\* least one required tag, the provider selected wins the tie-break (higher
\* priority, then earlier registration) among the available providers that
\* qualify; under capability_match with no required tag the first
\* registered available provider is selected, whatever its priority.
C20_TieBreak ==
    (op.name \in {"select_mcp_by_capability", "select_mcp_by_priority"}
     /\ Available # {}) =>
        \E k \in Available :
            /\ returned = <<services[k].name>>
            /\ IF op.name = "select_mcp_by_priority"
               THEN WinsTieBreak(k, Available)
               ELSE IF op.required # {}
               THEN WinsTieBreak(k, Qualified(Available, op.required))
               ELSE \A j \in Available : k <= j

\* two providers of the same priority hold the required tag: the one
\* registered first is selected, not the unavailable one before it
C20_Witness ==
    /\ op.name = "select_mcp_by_capability"
    /\ op.required = {"file"}
    /\ Len(services) = 3
    /\ ~services[1].available
    /\ services[1].priority = 1
    /\ services[2].available /\ services[3].available
    /\ services[2].priority = 0 /\ services[3].priority = 0
    /\ "file" \in services[2].capabilities
    /\ "file" \in services[3].capabilities
    /\ returned = <<services[2].name>>

----------------------------------------------------------------------------
(* Properties of the router's start-up, strategy and command execution *)

\* the names of the registered providers whose is_available() holds
AvailableNow ==
    {services[k].name : k \in {i \in DOMAIN services :
                                  services[i].registered /\ services[i].available}}

\* the place of a service in the configuration, which is the order of
\* registration
PlaceOf(name) == CHOOSE k \in DOMAIN services : services[k].name = name

AllAvailable(svcs) == [i \in DOMAIN svcs |-> [svcs[i] EXCEPT !.available = TRUE]]

\* C23 (as stated): when the provider that capability_match would choose for
\* the required capabilities is unavailable at the time of execute_command,
\* the result of the provider that executes the command is marked as a
\* failover: mcp_name is the alternate and fallback is set.
C23_UnavailableIsFailoverAsStated ==
    (/\ op.name = "execute_command"
     /\ router.routing_strategy = "capability_match"
     /\ returned.error = "none"
     /\ op.required # {}) =>
        LET normal == select_mcp_by_capability(
                          AllAvailable(Registry(services)), op.required)
        IN  (normal # None /\ normal[1] \notin AvailableNow) =>
                /\ returned.mcp_name # normal
                /\ returned.fallback

\* C24 (as stated): after initialize the registry holds exactly the enabled
\* services that were created and whose connect succeeded; initialize
\* returns true, and the router counts as initialized, exactly when a
\* provider is registered.
C24_RegistryAsStated ==
    op.name = "initialize" =>
        /\ \A k \in DOMAIN services :
               services[k].registered <=> services[k].startup = "ok"
        /\ returned <=> Registry(services) # <<>>
        /\ router.initialized <=> returned

----------------------------------------------------------------------------
(* Properties of a provider adapter *)

\* the calls of the session's call_tool among the events of a remote call
Attempts(log) ==
    LET IsCall(e) == e[1] = "call"
    IN  SelectSeq(log, IsCall)

\* C25: a call on a connected remote adapter awaits the session's call at
\* most 'retries' times, sleeps the given delay between two consecutive
\* attempts and nowhere else, returns the result of the first attempt that
\* succeeds, raises the last error only when 'retries' attempts in a row
\* have failed, and calls no method of the router.
C25_Retries ==
    LET c == adapter.call
        log == c.events
        n == Len(Attempts(log))
    IN  (adapter.kind = "cloud" /\ c.result # "Not connected") =>
            /\ n <= c.retries
            /\ \A i \in 1..Len(log) :
                   /\ i % 2 = 1 =>
                          /\ log[i][1] = "call"
                          /\ i < Len(log) => log[i][2] = "error"
                   /\ i % 2 = 0 =>
                          /\ log[i][1] = "sleep"
                          /\ log[i][2] = c.delay
            /\ c.pc = "attempt" =>
                   Len(log) = 0 \/ log[Len(log)][1] = "sleep"
            /\ c.pc = "sleep" => log[Len(log)] = <<"call", "error">>
            /\ (c.pc = "returned" /\ c.result = "result") =>
                   log[Len(log)] = <<"call", "ok">>
            /\ c.pc = "raised" =>
                   /\ n = c.retries
                   /\ log[Len(log)] = <<"call", "error">>
            /\ op = NoOp /\ returned = None /\ services = DefaultServices

\* two attempts fail, each followed by the delay, and the third succeeds
C25_Witness ==
    /\ adapter.call.pc = "returned"
    /\ adapter.call.retries = 3
    /\ Len(adapter.call.events) = 5

\* C26 (as stated): of two calls of disconnect in a row the second awaits
\* no context exit (so the transport is released at most once), does not
\* raise, and leaves the connection as the first left it.
C26_IdempotentDisconnectAsStated ==
    (adapter.last.method = "disconnect" /\ adapter.prev.method = "disconnect")
        => /\ adapter.last.exits = <<>>
           /\ ~adapter.last.raised
           /\ Connection(adapter) = adapter.last.found

----------------------------------------------------------------------------
(* Properties of _truncate_history *)

\* the budget under a value of max_tokens
Budget(which) == truncation.max_tokens[which] - reserved_tokens

RECURSIVE SumTokens(_)
SumTokens(h) ==
    IF h = <<>> THEN 0 ELSE estimate_tokens(Head(h)) + SumTokens(Tail(h))

\* the newest entry of the history fits the budget
NewestFits(which) ==
    /\ truncation.history # <<>>
    /\ estimate_tokens(Last(truncation.history)) <= Budget(which)

\* what is retained is the newest k entries, for k the largest number whose
\* entries fit the budget together, and the flag tells that an entry was
\* dropped
LongestSuffix(which) ==
    LET h == truncation.history
        kept == truncation[which].history
        k == Len(kept)
    IN  /\ k >= 1
        /\ kept = SubSeq(h, Len(h) - k + 1, Len(h))
        /\ SumTokens(kept) <= Budget(which)
        /\ k < Len(h) =>
               SumTokens(kept) + estimate_tokens(h[Len(h) - k]) > Budget(which)
        /\ truncation[which].truncated <=> k < Len(h)

\* C27: when the newest entry fits the budget A = max_tokens -
\* reserved_tokens, _truncate_history returns the newest k entries in their
\* order, their estimated tokens summing to at most A while those of the
\* newest k+1 exceed A, and the flag is true exactly when an entry was
\* dropped.
C27_LongestNewestSuffix ==
    \A which \in truncation.done :
        NewestFits(which) => LongestSuffix(which)

\* two of three entries are retained
C27_Witness ==
    /\ "low" \in truncation.done
    /\ NewestFits("low")
    /\ Len(truncation.history) = 3
    /\ Len(truncation.low.history) = 2
    /\ truncation.low.truncated

\* the ids of the entries of a history, in order
Ids(h) == [i \in DOMAIN h |-> h[i].id]

\* C28 (as stated): for budgets A1 <= A2 what is retained under A1 is a
\* suffix of what is retained under A2, also when the newest entry alone
\* exceeds A1.
C28_MonotonicityAsStated ==
    truncation.done = {"low", "high"} =>
        IsSuffix(truncation.low.history, truncation.high.history)

\* C28: for budgets A1 <= A2 the entries retained under A1 are, by
\* position in the history, a suffix of those retained under A2; they are
\* the same entries when the newest entry fits A1.  When the newest entry
\* alone exceeds A1 the one entry returned is a cut copy of it, which is
\* not the entry returned under A2 once that one is whole or cut at another
\* length.
C28_Monotonicity ==
    truncation.done = {"low", "high"} =>
        /\ IsSuffix(Ids(truncation.low.history), Ids(truncation.high.history))
        /\ (NewestFits("low") \/ truncation.low.history = <<>>) =>
               IsSuffix(truncation.low.history, truncation.high.history)

\* fewer entries are retained under the smaller budget, more than none
C28_Witness ==
    /\ truncation.done = {"low", "high"}
    /\ NewestFits("low")
    /\ Len(truncation.low.history) >= 1
    /\ Len(truncation.low.history) < Len(truncation.high.history)

----------------------------------------------------------------------------
(* Properties of interleaved handlers of one session *)

\* the handlers of a session whose tool dispatch has not returned
InFlight(session_id) ==
    {i \in DOMAIN requests : /\ requests[i].session_id = session_id
                             /\ requests[i].pc = "dispatching"}

\* C29 (as stated): under any interleaving of requests that name the same
\* session id, at most one tool dispatch is in flight for the session at
\* any time.
C29_OneInFlightAsStated == Cardinality(InFlight(SessionId)) <= 1

\* C30 (as stated): a request that has bound its session never fails
\* because the session was deleted while it was awaiting, and the item it
\* records is written to the record it bound, never lost and never written
\* to another record.
C30_RegistryAtomicAsStated ==
    \A i \in DOMAIN requests :
        requests[i].status # 0 =>
            /\ requests[i].status = 200
            /\ requests[i].wrote = requests[i].bound

----------------------------------------------------------------------------
(* Properties of the repetition guard over a run of proposals *)

\* the proposal of an iteration passed the repetition guard: it is at the
\* confirmation prompt or the router, or has been
PassedGuard(e) ==
    e.act \in {"asking", "dispatching", "dispatched", "rejected"}

C32_SignatureTracking ==
    [][ /\ events'.cur.act = "dispatched" =>
               last_command_signature' =
                   IF events'.cur.status = "success"
                   THEN events'.cur.sig ELSE None
        /\ ( /\ events'.prev.act = "dispatched"
             /\ events'.prev.status # "success"
             /\ events'.cur.sig = events'.prev.sig ) =>
               PassedGuard(events'.cur)
        /\ (events.cur.act = "asking" /\ events'.cur.act = "rejected") =>
               last_command_signature' = last_command_signature ]_vars

\* a call that failed is proposed again and is at the router again
C32_Witness ==
    /\ events.prev.act = "dispatched"
    /\ events.prev.status = "error"
    /\ events.cur.sig = events.prev.sig
    /\ events.cur.act = "dispatching"
    /\ last_command_signature = None
    /\ pc = "dispatch"

\* C37 (as stated): whenever a step soft-blocks a call, the proposal of the
\* step just before had the same signature and was executed with status
\* success.
C37_OnlyImmediateRepeatAsStated ==
    events.cur.act = "soft_block" =>
        /\ events.prev.sig = events.cur.sig
        /\ events.prev.act = "dispatched"
        /\ events.prev.status = "success"

----------------------------------------------------------------------------
(* Properties of _truncate_history when the newest entry is too large *)

\* the caps, by their place in the list, under which the cut copy of the
\* newest entry fits the budget
FittingCaps(which) ==
    { k \in DOMAIN TruncationCaps :
        estimate_tokens(_truncate_long_strings(Last(truncation.history),
                                               TruncationCaps[k]))
            <= Budget(which) }

\* the first of a non-empty set of places
FirstOf(places) == CHOOSE k \in places : \A j \in places : k <= j

\* C33: when even the newest entry exceeds the budget, the result is one
\* entry, the copy of the newest entry cut at the first of the caps 2000,
\* 1000, 500, 200, 100, 50, 20 under which it fits, its cut string carrying
\* the marker, with truncated = true; with no such cap the result is empty
\* with truncated = true; an empty history gives empty and truncated =
\* false; a history that is returned non-empty fits the budget.
C33_OversizedNewest ==
    \A which \in truncation.done :
        LET h == truncation.history
            got == truncation[which]
        IN  /\ h = <<>> => got = [history |-> <<>>, truncated |-> FALSE]
            /\ (h # <<>> /\ ~NewestFits(which)) =>
                   /\ got.truncated
                   /\ IF FittingCaps(which) = {}
                      THEN got.history = <<>>
                      ELSE LET cap == TruncationCaps[FirstOf(FittingCaps(which))]
                           IN  /\ Len(got.history) = 1
                               /\ got.history[1] =
                                      [Last(h) EXCEPT
                                          !.result.len = cap + NoticeLen]
                               /\ Last(h).result.len > cap
            /\ got.history # <<>> => SumTokens(got.history) <= Budget(which)

\* an entry of 4000 characters is returned cut at the second cap, 1000
C33_Witness ==
    /\ "low" \in truncation.done
    /\ truncation.history # <<>>
    /\ ~NewestFits("low")
    /\ Last(truncation.history).result.len = 4000
    /\ Len(truncation.low.history) = 1
    /\ truncation.low.history[1].result.len = 1000 + NoticeLen
    /\ truncation.low.truncated

----------------------------------------------------------------------------
(* Properties of the local adapter's call_tool *)

\* C34: call_tool of the local adapter never raises; for a name it does
\* not know, and when the tool's implementation throws, it returns an
\* envelope of status error; the connected flag is as the call found it.
C34_LocalTotality ==
    (adapter.kind = "local" /\ adapter.last.method = "call_tool") =>
        /\ ~adapter.last.raised
        /\ adapter.call.pc = "returned"
        /\ adapter.call.result \in {"success", "error"}
        /\ adapter.call.name \notin {"read_file", "ocr"} =>
               adapter.call.result = "error"
        /\ adapter.call.inside = "raise" => adapter.call.result = "error"
        /\ adapter.connected = adapter.last.found.connected

\* a tool of a connected adapter threw and the call returned an envelope
C34_Witness ==
    /\ adapter.kind = "local"
    /\ adapter.last.method = "call_tool"
    /\ adapter.call.name = "read_file"
    /\ adapter.call.inside = "raise"
    /\ adapter.call.pc = "returned"
    /\ adapter.call.result = "error"
    /\ adapter.connected

----------------------------------------------------------------------------
(* Properties of the remote adapter's state across calls and connects *)

\* a step of call_tool on the remote adapter: the call, one awaited remote
\* call, or the delay
CallStep ==
    /\ adapter.kind = "cloud"
    /\ adapter'.call # adapter.call

\* C35: no step of call_tool changes the remote adapter's connection: a
\* call that fails, also at its last attempt, leaves the session handle in
\* place and the adapter available; a call made while the session is in
\* place awaits the remote call whatever the call before it did; a call
\* without a session raises with no remote call awaited.
C35_CallLeavesConnection ==
    [][ CallStep =>
          /\ Connection(adapter') = Connection(adapter)
          /\ adapter'.call.pc = "raised" /\ adapter'.call.result = "error" =>
                 adapter'.session
          /\ ( /\ adapter.call.pc \in {"idle", "returned", "raised"}
               /\ adapter.session
               /\ adapter'.call.retries > 0 ) =>
                 adapter'.call.pc = "attempt"
          /\ ( /\ adapter.call.pc \in {"idle", "returned", "raised"}
               /\ ~adapter.session ) =>
                 /\ adapter'.call.pc = "raised"
                 /\ adapter'.call.result = "Not connected"
                 /\ adapter'.call.events = <<>> ]_vars

\* two attempts failed, the call raised, and the adapter is still available
C35_Witness ==
    /\ adapter.kind = "cloud"
    /\ adapter.call.pc = "raised"
    /\ adapter.call.result = "error"
    /\ adapter.call.retries = 2
    /\ Len(Attempts(adapter.call.events)) = 2
    /\ adapter.session
    /\ adapter.session_ctx

\* C38 (as stated): after a connect that raised, at whichever stage, the
\* adapter is not available and holds no transport or session context.
C38_FailedConnectAsStated ==
    ( /\ adapter.kind = "cloud"
      /\ adapter.last.method = "connect"
      /\ adapter.last.raised ) =>
        /\ ~adapter.session
        /\ ~adapter.session_ctx
        /\ ~adapter.client

\* C39 (as stated): a call on a connected remote adapter that has returned
\* has awaited the remote call at least once and returns its value.
C39_ResultOrErrorAsStated ==
    ( /\ adapter.kind = "cloud"
      /\ adapter.call.pc = "returned" ) =>
        /\ Len(Attempts(adapter.call.events)) >= 1
        /\ adapter.call.result = "result"

----------------------------------------------------------------------------
(* Properties of one-shot execution *)

\* the calls of a list that name a dangerous tool while the configuration
\* asks for a confirmation
DangerousAmong(calls, sec) ==
    LET Asks(c) == /\ c.name \in dangerous_tools
                   /\ sec.shell_confirm
                   /\ ~sec.auto_continue_dangerous
    IN  SelectSeq(calls, Asks)

\* C40: in execute_with_analysis, if a proposed call names a dangerous tool
\* that requires confirmation, no proposed call is dispatched and the
\* result is need_confirm with the dangerous calls and all the calls;
\* otherwise the calls are dispatched in proposal order, each once, and the
\* result holds one entry per call.
C40_AllOrNothing ==
    op.pc \in {"dispatch", "done"} =>
        IF DangerousAmong(op.tool_calls, op.security) # <<>>
        THEN /\ op.pc = "done"
             /\ op.dispatched = <<>>
             /\ returned =
                    [status |-> "need_confirm",
                     dangerous_calls |->
                         DangerousAmong(op.tool_calls, op.security),
                     all_calls |-> op.tool_calls]
        ELSE /\ op.dispatched =
                    SubSeq(op.tool_calls, 1, Len(op.dispatched))
             /\ op.pc = "done" =>
                    /\ op.dispatched = op.tool_calls
                    /\ returned.status = "success"
                    /\ Len(returned.results) = Len(op.tool_calls)
                    /\ \A i \in DOMAIN op.tool_calls :
                           returned.results[i].tool = op.tool_calls[i].name

\* a harmless call proposed before a dangerous one is not dispatched
C40_Witness ==
    /\ op.pc = "done"
    /\ op.tool_calls = <<MoveXY, Shell>>
    /\ op.security = MkSecurity(TRUE, FALSE, FALSE)
    /\ op.dispatched = <<>>
    /\ returned.status = "need_confirm"
    /\ returned.dangerous_calls = <<Shell>>

----------------------------------------------------------------------------
(* Properties of the history handed on from request to request *)

\* C36 (as stated): when no history was cleared during the requests made
\* to a session so far, the history the next /command/execute hands to the
\* step loop is the step entries appended during those requests, one after
\* the other, each exactly once.
C36_NoDuplicationAsStated ==
    (served.n >= 1 /\ ~served.before.cleared) =>
        served.started = served.before.steps

====
